---- MODULE Spec2Model ----
(***************************************************************************)
(* Order-lifecycle and reconciliation engine of the multi-level KuCoin     *)
(* market maker (src/src/main.rs), with the streaming order client's       *)
(* place/cancel calls (src/src/exchange/ws_order_client_v2.rs) seen from   *)
(* the caller: Ok(success), Ok(failure) or Err.                            *)
(*                                                                         *)
(* Fixed-point units (the code computes in f64):                           *)
(*   prices           cents                (0.01 USDT, the tick size)      *)
(*   sizes, inventory 1e-4 SOL                                             *)
(*   quote amounts    price * size = 1e-6 USDT                             *)
(*   offsets, skew    1e-3 bps                                             *)
(*   OFI              1e-2,   momentum 1e-3,   sigma 1e-2                  *)
(*   time             half seconds, the period of the controller tick;     *)
(*                    Instant::elapsed().as_secs() truncates to seconds    *)
(***************************************************************************)
EXTENDS Integers, Sequences, FiniteSets, TLC

\* ------------------------------------------------------------------ bounds
\* How many of the 25 configured levels the model quotes (a prefix of LEVELS).
NumLevels == 1
\* How many orders the exchange accepts in one behaviour (order ids 1..MaxOrders).
MaxOrders == 2
\* Orders of an earlier run that are still on the book at startup.
NumLeftover == 12
\* Levels quoted where the levels of one tick are set against each other.
BudgetLevels == 2
\* Fills a P&L book is given.
MaxFills == 5
\* Calls of place_order and cancel_order the quoting loop makes.
MaxRequests == 3
\* Client order ids an OrderTemplate issues between two resets.
MaxOids == 6
\* How many levels a side of an order-book snapshot carries at most.
SnapshotLevels == 2
\* How many trades the account makes in one behaviour (tradeIds 1..MaxTrades),
\* and how many of the latest the fills endpoint returns (pageSize).
MaxTrades == 3
PageSize == 2
\* How many controller ticks are counted in one behaviour.
MaxTicks == 3
\* How many reconnections of the streaming client succeed in one behaviour.
MaxReconnects == 3
\* How long an order's state_history grows, and how much size is reported
\* filled on one order (1e-4 SOL), in one behaviour.
MaxHistory == 5
MaxFilled == 3

\* ------------------------------------------------------- program constants
LEVELS ==
  << <<550, 340>>, <<1230, 740>>, <<1910, 1150>>, <<2590, 1560>>, <<3270, 1970>>,
     <<3950, 2380>>, <<4630, 2780>>, <<5310, 3190>>, <<5990, 3600>>, <<6670, 4010>>,
     <<7350, 4800>>, <<8030, 5400>>, <<8710, 6000>>, <<9390, 6600>>, <<10070, 7200>>,
     <<10750, 12900>>, <<11430, 13720>>, <<12110, 14530>>, <<12790, 15350>>,
     <<13470, 16160>>, <<14150, 16980>>, <<14830, 17800>>, <<15510, 18610>>,
     <<16190, 19430>>, <<16870, 20240>> >>
ORDER_USD == 10
MAX_INV_SOL == 15
MAX_ORDERS_PER_SIDE == 25
OFI_PAUSE_THRESHOLD == 60
OFI_RESUME_THRESHOLD == 35
SIGMA_FLOOR == 2
MOMENTUM_THRESHOLD == 3
CANCEL_TIMEOUT_SECS == 5
CANCEL_MAX_ATTEMPTS == 3
MAX_ORPHAN_CANCELS_PER_TICK == 5
ORPHAN_TTL_SECS == 10
BALANCE_SAFETY_BUFFER_PCT == 2

\* 1 SOL in size units, and bps/10000 as a fraction of 1e-3 bps.
SolUnit == 100 * 100
BpsScale == 10 ^ 7

\* ------------------------------------------------------ inputs of the model
\* Reference mid prices (cents), OFI, momentum and sigma samples a tick may read.
Mids == {20000, 20010}
Ofis == {-70, 0}
Moms == {0}
Sigmas == {SIGMA_FLOOR}
\* Net inventories pnl.inv() may report to a tick (1e-4 SOL): short 16, flat,
\* long 16.
Invs == {-16 * SolUnit, 0, 16 * SolUnit}
\* Available balances a successful poll may return (1e-4 SOL, 1e-6 USDT): with
\* nothing on hold, and with the funds of resting orders on hold; a failed poll
\* yields Balances::default().
Bals == {[sol |-> 600, usdt |-> 25000000], [sol |-> 100, usdt |-> 5000000]}
ZeroBal == [sol |-> 0, usdt |-> 0]
\* Time is counted in periods of the controller tick, two to the second.
TicksPerSec == 2
\* Duration::as_secs(): whole seconds, the fraction dropped.
AsSecs(t) == t \div TicksPerSec
\* Time that may pass between two handlers of the engine: 6 s.
TimeSteps == {6 * TicksPerSec}

Sides == {"bid", "ask"}

\* ------------------------------------------------------------- arithmetic
Abs(x) == IF x < 0 THEN -x ELSE x
Max(a, b) == IF a >= b THEN a ELSE b
Min(a, b) == IF a <= b THEN a ELSE b
Clamp(x, lo, hi) == IF x < lo THEN lo ELSE IF x > hi THEN hi ELSE x
\* f64::round of a / b for a >= 0, b > 0 (half away from zero).
RoundDiv(a, b) == (2 * a + b) \div (2 * b)

\* An inventory 0.05 SOL inside the limit MAX_INV_SOL: 14.95 SOL.
NearLimit == MAX_INV_SOL * SolUnit - SolUnit \div 20
\* exp(ETA * |inv|), ETA = -0.005, in 1e-4, tabulated for the inventories of Invs
\* and for NearLimit.
ExpEta(inv) ==
  IF inv = 0 THEN 10000
  ELSE IF Abs(inv) = SolUnit \div 20 THEN 9998
  ELSE IF Abs(inv) = SolUnit THEN 9950
  ELSE IF Abs(inv) = NearLimit THEN 9280
  ELSE 9231

\* ------------------------------------------------------------ cell states
EmptyCell == [st |-> "Empty", id |-> 0, price |-> 0, age |-> 0, attempts |-> 0]
LiveCell(oid, p) == [st |-> "Live", id |-> oid, price |-> p, age |-> 0, attempts |-> 0]
\* Faulty variant of CancelPendingCell: the state is created with its attempts
\* used up.
CancelPendingCellSpent(c) ==
  [st |-> "CancelPending", id |-> c.id, price |-> c.price, age |-> 0,
   attempts |-> CANCEL_MAX_ATTEMPTS]
\* CancelPending { order_id, price, sent_at: Instant::now(), attempts: 1 }; sent_at
\* is kept as the time elapsed since it.
CancelPendingCell(c) ==
  [st |-> "CancelPending", id |-> c.id, price |-> c.price, age |-> 0, attempts |-> 1]
CancelStuckCell(c) ==
  [st |-> "CancelStuck", id |-> c.id, price |-> c.price, age |-> 0, attempts |-> 0]

is_empty(c) == c.st = "Empty"
is_live(c) == c.st = "Live"

VARIABLES
  cells,        \* level_orders: level -> [bid, ask] cell
  commitments,  \* CommitmentTracker
  balances,     \* cached Balances of the last poll
  ofi_paused,   \* OFI hysteresis flag
  nextId,       \* exchange: the id its next accepted order gets
  active,       \* exchange: the orders active now
  recently_cancelled, \* orphan-cancel TTL map: entries [id, age]
  shutting_down, \* set by the ctrl-c branch, which then leaves the loop
  last,         \* what the handler just run did: its requests or its cell writes
  pnl,          \* PnL: the FIFO book of the fills branch
  fifo,         \* the fills given to pnl, paired off exactly
  om,           \* OrderManager: position and FIFO queues of on_fill
  wsc,          \* WsOrderClientV2, its connection task, and the server's end
  rate_limiter, \* the TokenBucket of WsOrderClient; WsOrderClientV2 holds none
  template,     \* OrderTemplate: its counter, and the ids issued since a reset
  order_book,   \* OrderBook: bids and asks, and the update last applied
  feed,         \* the fills endpoint: the account's trades, the ids seen, the fills applied
  run,          \* the tick counter n, and the clientOids the place requests carried
  monitor,      \* the reconnection monitor of WsOrderClientV2 and its statistics
  machine       \* OrderStateMachine: its orders, and the outcome of the last call

\* The state the handlers of the quoting loop leave alone.
books == <<pnl, fifo, om>>
\* The state that none of the handlers modelled above it touches.
shelf == <<order_book, feed, monitor, machine>>
aside == <<books, wsc, rate_limiter, template, shelf>>

vars == <<cells, commitments, balances, ofi_paused, nextId, active,
          recently_cancelled, shutting_down, last, aside, run>>

\* The keys of level_orders: the levels the engine quotes, a prefix of LEVELS.
Lv == DOMAIN cells

\* op: "tick" (a controller tick that sent requests) or "recon"; reqs: the place
\* and cancel requests of the tick, in order, each with the result handed to the
\* caller, the cell before and after, and the amount added to the in-flight
\* commitment;
\* ok, orders, tracked, expired, orph and moves: the fetch outcome, the fetched
\* list, tracked_ids, the ids the TTL map dropped, the orphan cancels and the cell
\* writes of a reconciliation;
\* snap: what a tick observed and decided, kept where a property reads it;
\* final: the calls of the shutdown branch, in order.
NoSnap ==
  [m |-> 0, sg |-> 0, ofi |-> 0, mom |-> 0, inv |-> 0, was |-> FALSE,
   gate |-> [paused |-> FALSE, skipB |-> FALSE, skipA |-> FALSE], ran |-> FALSE]
NoLast ==
  [op |-> "none", reqs |-> << >>, ok |-> FALSE, orders |-> {}, tracked |-> {},
   expired |-> {}, orph |-> {}, moves |-> {}, snap |-> NoSnap, final |-> << >>]

ZeroCommit ==
  [inflight_usdt |-> 0, inflight_sol |-> 0, live_usdt |-> 0, live_sol |-> 0]

\* PnL::default(), and OrderManager::new: nothing bought, sold or matched.
NoPnl ==
  [lq |-> << >>, sq |-> << >>, buys |-> 0, sells |-> 0, spread |-> 0, reb |-> 0,
   matched |-> 0, wins |-> 0, losses |-> 0]
NoFifo == [lq |-> << >>, sq |-> << >>, spread |-> 0]
NoOrderManager ==
  [position |-> 0, long_entries |-> << >>, short_entries |-> << >>,
   spread_pnl |-> 0, fills_count |-> 0]
\* WsOrderClientV2 after start(): the counter at 0, the pending map empty, the
\* first connection up with its sender stored, no call under way, and the
\* server about to send its sessionId message. issued keeps the ids handed out,
\* ret the outcome the last call returned.
NoCall == [st |-> "idle", id |-> 0, op |-> "none"]
NoRet == [id |-> 0, out |-> "none", reply |-> 0]
WsStarted ==
  [request_counter |-> 0, issued |-> {}, pending |-> {}, call |-> NoCall,
   outq |-> << >>,
   atServer |-> {}, inbound |-> {}, connected |-> TRUE, handler |-> "initial",
   session |-> "none", ret |-> NoRet]
\* TokenBucket::new(rate_limit_requests_per_sec, rate_limit_requests_per_sec):
\* the bucket starts full.
RateLimit == 50
TokenBucket_new(max_tokens, refill_rate) ==
  [tokens |-> max_tokens, max_tokens |-> max_tokens, refill_rate |-> refill_rate]
\* OrderTemplate::new: the counter at 0.
NewTemplate == [counter |-> 0, issued |-> << >>]
\* OrderBook::new: both sides empty. update names the call last applied.
NoUpdate == [op |-> "none", side |-> "bid", price |-> 0, size |-> 0]
NewOrderBook == [bids |-> << >>, asks |-> << >>, update |-> NoUpdate]
\* No trade on the account, `seen` empty (HashSet::new()), nothing applied.
\* applied counts, per tradeId, the fills the branch gave to the P&L book;
\* skipped holds the tradeIds the last poll found in `seen`.
\* The monitor spawned by start(): watching, no failure counted (connect_internal
\* stored consecutive_failures = 0). delay is the sleep of the last backoff,
\* connects the reconnections that succeeded.
MonitorStarted == [phase |-> "watching", failures |-> 0, delay |-> 0, connects |-> 0]
\* OrderStateMachine::new(): no order. call is the last call and what it
\* returned.
NoMachineCall == [op |-> "none", oid |-> 0, ev |-> "none", ok |-> FALSE, pre |-> "none"]
NewMachine == [orders |-> << >>, call |-> NoMachineCall]
\* let mut n: u64 = 0, and no place request sent. sent holds the clientOids of
\* the place requests so far, reused the ones a request carried again.
NoRun == [n |-> 0, sent |-> {}, reused |-> {}]
NoFeed ==
  [trades |-> << >>, seen |-> {}, applied |-> [t \in 1..MaxTrades |-> 0],
   skipped |-> {}]
InitAside ==
  /\ pnl = NoPnl
  /\ fifo = NoFifo
  /\ om = NoOrderManager
  /\ wsc = WsStarted
  /\ rate_limiter = TokenBucket_new(RateLimit, RateLimit)
  /\ template = NewTemplate
  /\ order_book = NewOrderBook
  /\ feed = NoFeed
  /\ run = NoRun
  /\ monitor = MonitorStarted
  /\ machine = NewMachine

\* State after startup: cells created Empty, tracker default, cancel-all done and
\* the first balances poll stored (or its default when that poll failed).
Init ==
  /\ cells = [l \in 1..NumLevels |-> [bid |-> EmptyCell, ask |-> EmptyCell]]
  /\ commitments = ZeroCommit
  /\ balances \in Bals \cup {ZeroBal}
  /\ ofi_paused = FALSE
  /\ nextId = 1
  /\ active = {}
  /\ recently_cancelled = {}
  /\ shutting_down = FALSE
  /\ last = NoLast
  /\ InitAside

\* Faulty variant of Running: the branches are not guarded and the loop is not
\* left.
RunningAlways == TRUE
\* Every branch of the select loop is guarded by the shutdown flag, and the
\* ctrl-c branch leaves the loop.
Running == ~shutting_down

\* ---------------------------------------------------- quoting controller
\* Faulty variant of OfiGate: one threshold, no hysteresis band.
OfiGateNoBand(paused, ofi) ==
  [paused |-> Abs(ofi) > OFI_PAUSE_THRESHOLD,
   skipB |-> ofi < -OFI_PAUSE_THRESHOLD, skipA |-> ofi > OFI_PAUSE_THRESHOLD]
\* OFI gate with hysteresis: the new flag and the sides skipped this tick.
OfiGate(paused, ofi) ==
  IF paused
  THEN IF Abs(ofi) < OFI_RESUME_THRESHOLD
       THEN [paused |-> FALSE, skipB |-> FALSE, skipA |-> FALSE]
       ELSE [paused |-> TRUE, skipB |-> ofi < 0, skipA |-> ofi > 0]
  ELSE [paused |-> Abs(ofi) > OFI_PAUSE_THRESHOLD,
        skipB |-> ofi < -OFI_PAUSE_THRESHOLD, skipA |-> ofi > OFI_PAUSE_THRESHOLD]

\* skew_bps = inv * GAMMA * sigma^2 * 10000 with GAMMA = 0.1 (in 1e-3 bps).
SkewBps(q, sg) == (q * sg * sg) \div 100
CappedSkew(l, q, sg) ==
  LET max_skew == LEVELS[l][1] \div 2
  IN Clamp(SkewBps(q, sg), -max_skew, max_skew)

\* bp = round(m * (1 - bid_bps / 10000) / 0.01) * 0.01, in cents.
BidPrice(l, m, q, sg) ==
  LET bid_bps == LEVELS[l][1] + CappedSkew(l, q, sg)
  IN m + ((BpsScale - 2 * m * bid_bps) \div (2 * BpsScale))
\* Faulty variant of AskPrice: the uptrend multiplier is not applied.
AskPriceFlat(l, m, q, sg, up) ==
  m + ((2 * BpsScale + 4 * m * (LEVELS[l][1] - CappedSkew(l, q, sg))) \div (4 * BpsScale))
\* ap = round(m * (1 + ask_bps / 10000) / 0.01) * 0.01 with
\* ask_bps = (bps - capped_skew) * uptrend_multiplier, the multiplier 3/2 or 1.
AskPrice(l, m, q, sg, up) ==
  LET num == (LEVELS[l][1] - CappedSkew(l, q, sg)) * (IF up THEN 3 ELSE 2)
  IN m + ((2 * BpsScale + 2 * m * num) \div (4 * BpsScale))

SizeStep == 100
\* base_sz = round((ORDER_USD / m) / 0.01) * 0.01
BaseSz(m) == RoundDiv(ORDER_USD * 10000, m) * SizeStep
BidSz(m, q) ==
  IF q > 0 THEN Max(SizeStep, (BaseSz(m) * ExpEta(q)) \div 10000) ELSE BaseSz(m)
AskSz(m, q) ==
  IF q > 0 THEN BaseSz(m) ELSE Max(SizeStep, (BaseSz(m) * ExpEta(Abs(q))) \div 10000)
\* format!("{:.2}", size): the size the request carries and the exchange books.
Fmt2(sz) == RoundDiv(sz, SizeStep) * SizeStep

can_place_bid(q, size) == q + size <= MAX_INV_SOL * SolUnit
\* Faulty variant of can_place_ask: an ask needs inventory to sell.
can_place_ask_long(q, size) == q - size >= 0
can_place_ask(q, size) == q - size >= -(MAX_INV_SOL * SolUnit)
needs_cancel_bid(q, size, skip_bids) == skip_bids \/ q + size > MAX_INV_SOL * SolUnit
needs_cancel_ask(q, size) == q - size < -(MAX_INV_SOL * SolUnit)

\* bps_diff = |price - target| / target * 10000 > thresh
NeedsRefresh(l, price, target) ==
  Abs(price - target) * BpsScale > LEVELS[l][2] * target

total_usdt(cm) == cm.inflight_usdt + cm.live_usdt
total_sol(cm) == cm.inflight_sol + cm.live_sol
\* available = balance - total commitments - balance * BALANCE_SAFETY_BUFFER_PCT
AvailableUsdt(bal, cm) ==
  bal.usdt - total_usdt(cm) - (bal.usdt * BALANCE_SAFETY_BUFFER_PCT) \div 100
\* Faulty variant of AvailableSol: the commitments are not subtracted.
AvailableSolUncommitted(bal, cm) ==
  bal.sol - (bal.sol * BALANCE_SAFETY_BUFFER_PCT) \div 100
AvailableSol(bal, cm) ==
  bal.sol - total_sol(cm) - (bal.sol * BALANCE_SAFETY_BUFFER_PCT) \div 100

\* --------------------------------------------- streaming client outcomes
\* What can become of a request: acknowledged; acknowledged without an order id
\* in the payload; refused by the exchange; reply not received within 5 s, the
\* exchange having acted on the request or not; never sent (no connection).
PlaceOuts == {"ack", "ack_noid", "nack", "timeout_done", "timeout", "unsent"}
CancelOuts == {"ack", "nack", "timeout_done", "timeout", "unsent"}
\* What place_order / cancel_order hands back to the caller.
WsResult(out) ==
  CASE out = "ack" -> "OkId"
    [] out = "ack_noid" -> "OkNoId"
    [] out = "nack" -> "OkFail"
    [] OTHER -> "Err"
WsSuccess(res) == res \in {"OkId", "OkNoId"}
\* The exchange acted on the request.
Accepted(out) == out \in {"ack", "ack_noid", "timeout_done"}

\* What a cancel branch leaves in the cell, c being the clone the branch matched
\* on and cur the cell in level_orders.
\* Refresh cancel: Empty on a success ack, CancelPending otherwise.
RefreshCancelNext(c, cur, res) ==
  IF WsSuccess(res) THEN EmptyCell ELSE CancelPendingCell(c)
\* Faulty variant of GateCancelNext: Err empties the cell.
GateCancelNextDrop(c, cur, res) ==
  IF res = "OkFail" THEN CancelPendingCell(c) ELSE EmptyCell
\* Inventory/gate cancel: as the refresh cancel on Ok; there is no arm for Err,
\* the cell is not written.
GateCancelNext(c, cur, res) ==
  IF res = "Err" THEN cur
  ELSE IF WsSuccess(res) THEN EmptyCell ELSE CancelPendingCell(c)
\* Place outcome: Live only on a success ack that carries the order id.
PlaceCell(c, res, oid, p) ==
  IF res = "OkId" THEN LiveCell(oid, p) ELSE c
\* Faulty variant of PlaceCharge: charged on any success, order id or not.
PlaceChargeAnyOk(x, res, amount) ==
  IF WsSuccess(res) THEN x + amount ELSE x
\* add_inflight_bid / add_inflight_ask, called in the same branch.
PlaceCharge(x, res, amount) ==
  IF res = "OkId" THEN x + amount ELSE x
\* Faulty variant of ReRead: the clone taken before the refresh checks is kept.
ReReadStale(old, cur) == old
\* The cells re-read from level_orders after the refresh checks.
ReRead(old, cur) == cur

\* The exchange's book.
IdsOf(orders) == {o.id : o \in orders}
Without(orders, ids) == {o \in orders : o.id \notin ids}

\* local_bid_count / local_ask_count, taken once before the level loop.
LocalCount(s) == Cardinality({l \in Lv : ~is_empty(cells[l][s])})

\* Faulty variant of Snapshot: a downtrend does not skip the bids.
SnapshotNoTrend(m, sg, q, g, mom) ==
  [m |-> m, sg |-> sg, inv |-> q,
   skipB |-> g.skipB, skipA |-> g.skipA,
   up |-> mom > MOMENTUM_THRESHOLD,
   bidRoom |-> LocalCount("bid") < MAX_ORDERS_PER_SIDE,
   askRoom |-> LocalCount("ask") < MAX_ORDERS_PER_SIDE]
\* What a tick fixes before its level loop: the reference mid, sigma, the net
\* inventory, the sides the gates skip, the uptrend flag, and whether each side
\* is below its cap.
Snapshot(m, sg, q, g, mom) ==
  [m |-> m, sg |-> sg, inv |-> q,
   skipB |-> g.skipB \/ mom < -MOMENTUM_THRESHOLD, skipA |-> g.skipA,
   up |-> mom > MOMENTUM_THRESHOLD,
   bidRoom |-> LocalCount("bid") < MAX_ORDERS_PER_SIDE,
   askRoom |-> LocalCount("ask") < MAX_ORDERS_PER_SIDE]

\* What a level's pass works on: the cell table, the tracker, the exchange, and
\* the requests sent so far.
World ==
  [cells |-> cells, cm |-> commitments, active |-> active, nextId |-> nextId,
   reqs |-> << >>]

\* Faulty variant of AfterCancel: a confirmed cancel of a bid releases the
\* order's notional from live_usdt.
AfterCancelReleasing(w, l, s, c, out, branch) ==
  LET to == IF branch = "refresh"
            THEN RefreshCancelNext(c, w.cells[l][s], WsResult(out))
            ELSE GateCancelNext(c, w.cells[l][s], WsResult(out))
  IN [w EXCEPT !.cells[l][s] = to,
               !.cm.live_usdt = IF to.st = "Empty" /\ s = "bid" THEN 0 ELSE @,
               !.active = IF Accepted(out) THEN Without(@, {c.id}) ELSE @,
               !.reqs = Append(@, [op |-> "cancel", lvl |-> l, side |-> s,
                                   res |-> WsResult(out), pre |-> w.cells[l][s],
                                   post |-> to, charge |-> 0])]
\* The world after a cancel request for the cell (l, s), decided on the clone c
\* and ended by `out`; branch names the branch that sent it.
AfterCancel(w, l, s, c, out, branch) ==
  LET to == IF branch = "refresh"
            THEN RefreshCancelNext(c, w.cells[l][s], WsResult(out))
            ELSE GateCancelNext(c, w.cells[l][s], WsResult(out))
  IN [w EXCEPT !.cells[l][s] = to,
               !.active = IF Accepted(out) THEN Without(@, {c.id}) ELSE @,
               !.reqs = Append(@, [op |-> "cancel", lvl |-> l, side |-> s,
                                   res |-> WsResult(out), pre |-> w.cells[l][s],
                                   post |-> to, charge |-> 0])]
CancelWorlds(w, l, s, c, branch) ==
  {AfterCancel(w, l, s, c, out, branch) :
     out \in {o \in CancelOuts : Accepted(o) => c.id \in IdsOf(w.active)}}

\* The world after a place request for the cell (l, s) at price p; size is the
\* computed size, amount what add_inflight_* receives.
AfterPlace(w, l, s, p, size, field, amount, out) ==
  LET to == PlaceCell(w.cells[l][s], WsResult(out), w.nextId, p)
      cm1 == [w.cm EXCEPT ![field] = PlaceCharge(@, WsResult(out), amount)]
  IN [cells |-> [w.cells EXCEPT ![l][s] = to],
      cm |-> cm1,
      active |-> IF Accepted(out)
                 THEN w.active \cup {[id |-> w.nextId, lvl |-> l, side |-> s,
                                      price |-> p, size |-> Fmt2(size)]}
                 ELSE w.active,
      nextId |-> IF Accepted(out) THEN w.nextId + 1 ELSE w.nextId,
      reqs |-> Append(w.reqs, [op |-> "place", lvl |-> l, side |-> s,
                               res |-> WsResult(out),
                               pre |-> w.cells[l][s], post |-> to,
                               charge |-> cm1[field] - w.cm[field]])]
PlaceWorlds(w, l, s, p, size, field, amount) ==
  {AfterPlace(w, l, s, p, size, field, amount, out) :
     out \in {o \in PlaceOuts : Accepted(o) => w.nextId <= MaxOrders}}

\* Refresh check of one cell, on the clone c taken at the top of the level.
RefreshWorlds(w, l, s, c, target) ==
  IF is_live(c) /\ NeedsRefresh(l, c.price, target)
  THEN CancelWorlds(w, l, s, c, "refresh")
  ELSE {w}

\* BID ORDER: place, or cancel for inventory or a skipped side.
BidWorlds(w, l, t, bs, bp, bid_sz) ==
  IF /\ is_empty(bs) /\ ~t.skipB /\ can_place_bid(t.inv, bid_sz)
     /\ AvailableUsdt(balances, w.cm) >= bid_sz * bp
     /\ t.bidRoom
  THEN PlaceWorlds(w, l, "bid", bp, bid_sz, "inflight_usdt", bid_sz * bp)
  ELSE IF is_live(bs) /\ needs_cancel_bid(t.inv, bid_sz, t.skipB)
  THEN CancelWorlds(w, l, "bid", bs, "gate")
  ELSE {w}

\* ASK ORDER.
AskWorlds(w, l, t, as, ap, ask_sz) ==
  IF /\ is_empty(as) /\ ~t.skipA /\ can_place_ask(t.inv, ask_sz)
     /\ AvailableSol(balances, w.cm) >= ask_sz
     /\ t.askRoom
  THEN PlaceWorlds(w, l, "ask", ap, ask_sz, "inflight_sol", ask_sz)
  ELSE IF is_live(as) /\ needs_cancel_ask(t.inv, ask_sz)
  THEN CancelWorlds(w, l, "ask", as, "gate")
  ELSE {w}

\* One iteration of the level loop: the two refresh checks on the cloned cells,
\* the re-read, then the bid and the ask branch.
LevelWorlds(w, l, t) ==
  LET bp == BidPrice(l, t.m, t.inv, t.sg)
      ap == AskPrice(l, t.m, t.inv, t.sg, t.up)
      bid_state == w.cells[l].bid
      ask_state == w.cells[l].ask
      W2 == UNION {RefreshWorlds(w1, l, "ask", ask_state, ap) :
                     w1 \in RefreshWorlds(w, l, "bid", bid_state, bp)}
      W3 == UNION {BidWorlds(w2, l, t, ReRead(bid_state, w2.cells[l].bid), bp,
                             BidSz(t.m, t.inv)) : w2 \in W2}
  IN UNION {AskWorlds(w3, l, t, ReRead(ask_state, w3.cells[l].ask), ap,
                      AskSz(t.m, t.inv)) : w3 \in W3}

\* Faulty variant of LevelsFrom: the levels are walked from the last one back.
RECURSIVE LevelsFromLast(_, _, _)
LevelsFromLast(W, l, t) ==
  IF l \notin Lv THEN W
  ELSE LevelsFromLast(UNION {LevelWorlds(w, Cardinality(Lv) + 1 - l, t) : w \in W},
                      l + 1, t)
\* The level loop from level l on.
RECURSIVE LevelsFrom(_, _, _)
LevelsFrom(W, l, t) ==
  IF l \notin Lv THEN W
  ELSE LevelsFrom(UNION {LevelWorlds(w, l, t) : w \in W}, l + 1, t)

\* One controller tick: the OFI gate, the trend filter (a downtrend without a
\* long position ends the tick there), then the level loop. q is pnl.inv() as
\* the fills recorded so far leave it. The tick counter n is read by nothing
\* but the clientOid of a place request: TickRun is the tick without it,
\* TickObs the tick where the clientOids are not looked at, and TickCounted
\* the tick with the counter and the clientOids.
TickRun(mids, ofis, moms, invs, seen) ==
  /\ Running
  /\ \E m \in mids, ofi \in ofis, mom \in moms, sg \in Sigmas, q \in invs :
       LET g == OfiGate(ofi_paused, ofi)
           downtrend == mom < -MOMENTUM_THRESHOLD
           skipped == downtrend /\ q <= SolUnit \div 20
           snap == [m |-> m, sg |-> sg, ofi |-> ofi, mom |-> mom, inv |-> q,
                    was |-> ofi_paused, gate |-> g, ran |-> ~skipped]
       IN /\ ofi_paused' = g.paused
          /\ \E w \in IF skipped
                       THEN {World}
                       ELSE LevelsFrom({World}, 1, Snapshot(m, sg, q, g, mom)) :
               /\ cells' = w.cells
               /\ commitments' = w.cm
               /\ active' = w.active
               /\ nextId' = w.nextId
               /\ last' = IF seen
                          THEN [NoLast EXCEPT !.op = "tick", !.reqs = w.reqs,
                                              !.snap = snap]
                          ELSE IF w.reqs = << >> THEN NoLast
                          ELSE [NoLast EXCEPT !.op = "tick", !.reqs = w.reqs]
  /\ UNCHANGED <<balances, recently_cancelled, shutting_down, aside>>
TickObs(mids, ofis, moms, invs, seen) ==
  /\ TickRun(mids, ofis, moms, invs, seen)
  /\ UNCHANGED run
TickIn(mids, ofis, moms, invs) == TickObs(mids, ofis, moms, invs, FALSE)

\* key = (bps * 10.0) as i32, bps being kept in 1e-3.
LevelKey(l) == LEVELS[l][1] \div 100
\* format!("{}", k) of k >= 0: its decimal digits.
DigitChars == <<"0", "1", "2", "3", "4", "5", "6", "7", "8", "9">>
RECURSIVE Digits(_)
Digits(k) ==
  IF k < 10 THEN <<DigitChars[k + 1]>>
  ELSE Digits(k \div 10) \o <<DigitChars[(k % 10) + 1]>>
\* format!("b{}_{}", key, n) and format!("a{}_{}", key, n), as the characters
\* of the string.
client_oid(side, key, n) ==
  <<IF side = "bid" THEN "b" ELSE "a">> \o Digits(key) \o <<"_">> \o Digits(n)
\* n += 1 at the top of the tick.
\* Faulty variant of NextN: the counter stays.
NextNStuck(n) == n
NextN(n) == n + 1
\* The tick with its counter, up to MaxTicks ticks: every place request of the
\* tick carries client_oid of its side, its level's key and n.
TickCounted(mids, ofis, moms, invs) ==
  /\ run.n < MaxTicks
  /\ TickRun(mids, ofis, moms, invs, TRUE)
  /\ LET n == NextN(run.n)
         places == SelectSeq(last'.reqs, LAMBDA r : r.op = "place")
         oid(i) == client_oid(places[i].side, LevelKey(places[i].lvl), n)
         oids == {oid(i) : i \in DOMAIN places}
     IN run' = [n |-> n,
                sent |-> run.sent \cup oids,
                reused |-> run.reused \cup (oids \cap run.sent)
                          \cup {oid(i) : i \in {j \in DOMAIN places :
                                     \E k \in 1..(j - 1) : oid(k) = oid(j)}}]

\* ------------------------------------------------------------ reconciler
\* One cell against the fetched ids: the new cell, whether its id joins
\* tracked_ids, and whether its order is added to the live commitment.
\* restOk is what rest_cancel_order returns where the arm calls it.
Dropped == [cell |-> EmptyCell, tracked |-> FALSE, live |-> FALSE]
\* Faulty variant of ReconCancelPending: a cancel that timed out forces the
\* cell Empty without the REST fallback.
ReconCancelPendingForce(c, present, restOk) ==
  IF ~present THEN Dropped
  ELSE IF AsSecs(c.age) > CANCEL_TIMEOUT_SECS THEN Dropped
  ELSE [cell |-> c, tracked |-> TRUE, live |-> FALSE]
\* Faulty variant of ReconLive: a Live cell whose order is gone is kept.
ReconLiveKept(c, present) ==
  [cell |-> c, tracked |-> present, live |-> present]
ReconLive(c, present) ==
  IF ~present THEN Dropped
  ELSE [cell |-> c, tracked |-> TRUE, live |-> TRUE]
ReconCancelPending(c, present, restOk) ==
  IF ~present THEN Dropped
  ELSE IF AsSecs(c.age) > CANCEL_TIMEOUT_SECS
  THEN IF c.attempts < CANCEL_MAX_ATTEMPTS
       THEN IF restOk THEN Dropped
            ELSE [cell |-> CancelStuckCell(c), tracked |-> FALSE, live |-> FALSE]
       ELSE [cell |-> CancelStuckCell(c), tracked |-> FALSE, live |-> FALSE]
  ELSE [cell |-> c, tracked |-> TRUE, live |-> FALSE]
\* Faulty variant of ReconCancelStuck: a failed REST cancel makes the cell
\* CancelPending again.
ReconCancelStuckRetry(c, present, restOk) ==
  IF ~present THEN Dropped
  ELSE IF restOk THEN Dropped
  ELSE [cell |-> CancelPendingCell(c), tracked |-> TRUE, live |-> FALSE]
ReconCancelStuck(c, present, restOk) ==
  IF ~present THEN Dropped
  ELSE IF restOk THEN Dropped
  ELSE [cell |-> c, tracked |-> TRUE, live |-> FALSE]
ReconCell(c, present, restOk) ==
  CASE c.st = "Live" -> ReconLive(c, present)
    [] c.st = "CancelPending" -> ReconCancelPending(c, present, restOk)
    [] c.st = "CancelStuck" -> ReconCancelStuck(c, present, restOk)
    [] OTHER -> [cell |-> c, tracked |-> FALSE, live |-> FALSE]

\* The branch of ReconCell calls rest_cancel_order.
CallsRest(c, present) ==
  /\ present
  /\ \/ c.st = "CancelStuck"
     \/ c.st = "CancelPending" /\ AsSecs(c.age) > CANCEL_TIMEOUT_SECS
                               /\ c.attempts < CANCEL_MAX_ATTEMPTS

\* poll_active_orders: the active orders, or an empty list when the request fails.
PollActiveOrders(fetchOk) == IF fetchOk THEN active ELSE {}

\* What an active order o adds to the live commitment of its cell's side:
\* o.size * o.price for a bid cell, o.size for an ask cell.
Committed(o, s) == IF s = "bid" THEN o.size * o.price ELSE o.size
RECURSIVE SumCommitted(_, _)
SumCommitted(S, s) ==
  IF S = {} THEN 0
  ELSE LET x == CHOOSE y \in S : TRUE
       IN Committed(x, s) + SumCommitted(S \ {x}, s)
\* Faulty variant of LiveSum: every tracked cell's order is counted.
LiveSumTracked(orders, rs, s) ==
  SumCommitted({o \in orders : \E l \in Lv : rs[l][s].tracked /\ rs[l][s].cell.id = o.id}, s)
\* live_usdt / live_sol as the cell loop leaves them: the fetched orders found
\* for the cells that stay Live.
LiveSum(orders, rs, s) ==
  SumCommitted({o \in orders : \E l \in Lv : rs[l][s].live /\ rs[l][s].cell.id = o.id}, s)

\* The fetched list in the order the loop walks it.
RECURSIVE SortedSeq(_)
SortedSeq(S) ==
  IF S = {} THEN << >>
  ELSE LET x == CHOOSE y \in S : \A z \in S : y <= z
       IN <<x>> \o SortedSeq(S \ {x})

\* Faulty variant of OrphanPick: no budget, every orphan is cancelled at once.
OrphanPickAll(orders, tracked, recent, budget) ==
  {orders[i] : i \in DOMAIN orders} \ (tracked \cup recent)
\* The orphan loop: ids a cancel is sent for, given tracked_ids, the ids in
\* recently_cancelled and the remaining budget.
RECURSIVE OrphanPick(_, _, _, _)
OrphanPick(orders, tracked, recent, budget) ==
  IF orders = << >> THEN {}
  ELSE LET id == Head(orders)
       IN IF id \notin tracked /\ budget > 0 /\ id \notin recent
          THEN {id} \cup OrphanPick(Tail(orders), tracked, recent \cup {id}, budget - 1)
          ELSE OrphanPick(Tail(orders), tracked, recent, budget)

\* Faulty variant of Retained: no entry ever leaves the map.
RetainedForever(rc) == rc
\* recently_cancelled.retain(|_, t| t.elapsed().as_secs() < 10)
Retained(rc) == {e \in rc : AsSecs(e.age) < ORPHAN_TTL_SECS}

\* One reconciliation tick.
ReconIn(bals, reach) ==
  /\ Running
  /\ \E fetchOk \in BOOLEAN, bal \in bals :
       LET orders == PollActiveOrders(fetchOk)
           ids == IdsOf(orders)
           rest == {cells[l][s].id : <<l, s>> \in
                      {x \in Lv \X Sides : CallsRest(cells[x[1]][x[2]], cells[x[1]][x[2]].id \in ids)}}
       IN \E restOk \in SUBSET rest :
            LET rs == [l \in Lv |-> [s \in Sides |->
                         ReconCell(cells[l][s], cells[l][s].id \in ids,
                                   cells[l][s].id \in restOk)]]
                tracked == {rs[l][s].cell.id : <<l, s>> \in
                              {x \in Lv \X Sides : rs[x[1]][x[2]].tracked}}
                keep == Retained(recently_cancelled)
                picked == OrphanPick(SortedSeq(ids), tracked, {e.id : e \in keep},
                                     MAX_ORPHAN_CANCELS_PER_TICK)
            IN \E done \in IF reach THEN SUBSET picked ELSE {{}} :
                 /\ balances' = bal
                 /\ cells' = [l \in Lv |-> [bid |-> rs[l]["bid"].cell,
                                            ask |-> rs[l]["ask"].cell]]
                 /\ commitments' =
                      [inflight_usdt |-> 0, inflight_sol |-> 0,
                       live_usdt |-> LiveSum(orders, rs, "bid"),
                       live_sol |-> LiveSum(orders, rs, "ask")]
                 /\ recently_cancelled' =
                      keep \cup {[id |-> id, age |-> 0] : id \in picked}
                 /\ active' = Without(active, restOk \cup done)
                 /\ last' = [NoLast EXCEPT
                               !.op = "recon", !.ok = fetchOk, !.orders = orders,
                               !.tracked = tracked,
                               !.expired = {e.id : e \in recently_cancelled \ keep},
                               !.orph = picked,
                               !.moves = {[lvl |-> x[1], side |-> x[2],
                                           from |-> cells[x[1]][x[2]],
                                           to |-> rs[x[1]][x[2]].cell] :
                                          x \in {y \in Lv \X Sides :
                                            rs[y[1]][y[2]].cell # cells[y[1]][y[2]]}}]
  /\ UNCHANGED <<ofi_paused, nextId, shutting_down, aside, run>>
Recon == ReconIn(Bals \cup {ZeroBal}, TRUE)

\* ------------------------------------------------------------ environment
\* An active order is filled, or cancelled from outside. The engine learns of the
\* book only through the outcomes of its requests and polls, so a fill during a
\* handler is taken before or after it.
ExchangeFill ==
  /\ Running
  /\ \E o \in active : active' = active \ {o}
  /\ last' = NoLast
  /\ UNCHANGED <<cells, commitments, balances, ofi_paused, nextId,
                 recently_cancelled, shutting_down, aside, run>>

\* Time passes between two handlers of the select loop: every sent_at and every
\* TTL entry grows older. Ages past the cancel timeout, and past the TTL, are not
\* told apart.
Older(c, d) ==
  IF c.st = "CancelPending"
  THEN [c EXCEPT !.age = Min(c.age + d, (CANCEL_TIMEOUT_SECS + 1) * TicksPerSec)]
  ELSE c
AdvanceTimeIn(steps) ==
  /\ Running
  /\ \E d \in steps :
       /\ cells' = [l \in Lv |-> [bid |-> Older(cells[l].bid, d),
                                  ask |-> Older(cells[l].ask, d)]]
       /\ recently_cancelled' =
            {[id |-> e.id, age |-> Min(e.age + d, ORPHAN_TTL_SECS * TicksPerSec)] :
               e \in recently_cancelled}
  /\ last' = NoLast
  /\ UNCHANGED <<commitments, balances, ofi_paused, nextId, active, shutting_down,
                 aside, run>>
AdvanceTime == AdvanceTimeIn(TimeSteps)

\* ------------------------------------------------------------ supervisor
\* The ctrl-c branch: the flag is set, cancel_all_orders is called once (its
\* result ignored), the active orders are polled once, the final report is
\* logged and the loop is left. No cell, counter or map is touched.
FinalCalls == <<"cancel_all_orders", "poll_active_orders", "report">>
Shutdown ==
  /\ Running
  /\ shutting_down' = TRUE
  /\ \E cancelOk \in BOOLEAN, fetchOk \in BOOLEAN :
       /\ active' = IF cancelOk THEN {} ELSE active
       /\ last' = [NoLast EXCEPT !.op = "shutdown", !.ok = fetchOk,
                                 !.orders = IF fetchOk THEN active' ELSE {},
                                 !.final = FinalCalls]
  /\ UNCHANGED <<cells, commitments, balances, ofi_paused, nextId,
                 recently_cancelled, aside, run>>

\* ------------------------------------------------------------ P&L (FIFO)
\* Sizes are kept in 1e-4 SOL, so the 0.0001 of the two thresholds is one unit.
DustSize == SolUnit \div 10000
REBATE == 1

\* e.sz < 0.0001, for the size an entry keeps after a match.
IsDust(left) == left < DustSize
\* rem > 0.0001, for what is left of a fill.
AboveDust(rem) == rem > DustSize

\* The while loop of PnL::buy and PnL::sell, and of the two closing branches of
\* on_fill: the fill walks the opposite queue q from the front; every match adds
\* its P&L, and an entry left with less than 0.0001 is popped. The result is
\* the queue, the rest of the fill, the P&L added and the matches counted.
RECURSIVE Walk(_, _, _, _)
Walk(q, rem, px, side) ==
  IF rem > 0 /\ q # << >>
  THEN LET e == Head(q)
           m == Min(rem, e.sz)
           gain == m * (IF side = "buy" THEN e.px - px ELSE px - e.px)
           left == e.sz - m
           w == Walk(IF IsDust(left) THEN Tail(q)
                                     ELSE <<[e EXCEPT !.sz = left]>> \o Tail(q),
                     rem - m, px, side)
       IN [w EXCEPT !.gain = @ + gain, !.matched = @ + 1,
                    !.wins = @ + (IF gain > 0 THEN 1 ELSE 0),
                    !.losses = @ + (IF gain > 0 THEN 0 ELSE 1)]
  ELSE [q |-> q, rem |-> rem, gain |-> 0, matched |-> 0, wins |-> 0, losses |-> 0]

\* PnL::buy: the fill covers the short queue, and what is left above 0.0001
\* joins the long queue.
PnL_buy(p, px, sz, r) ==
  LET w == Walk(p.sq, sz, px, "buy")
  IN [lq |-> IF AboveDust(w.rem) THEN Append(p.lq, [px |-> px, sz |-> w.rem])
                                 ELSE p.lq,
      sq |-> w.q, buys |-> p.buys + 1, sells |-> p.sells,
      spread |-> p.spread + w.gain, reb |-> p.reb + r,
      matched |-> p.matched + w.matched, wins |-> p.wins + w.wins,
      losses |-> p.losses + w.losses]
\* PnL::sell: the fill closes the long queue, and what is left above 0.0001
\* joins the short queue.
PnL_sell(p, px, sz, r) ==
  LET w == Walk(p.lq, sz, px, "sell")
  IN [lq |-> w.q,
      sq |-> IF AboveDust(w.rem) THEN Append(p.sq, [px |-> px, sz |-> w.rem])
                                 ELSE p.sq,
      buys |-> p.buys, sells |-> p.sells + 1,
      spread |-> p.spread + w.gain, reb |-> p.reb + r,
      matched |-> p.matched + w.matched, wins |-> p.wins + w.wins,
      losses |-> p.losses + w.losses]

RECURSIVE SumSz(_)
SumSz(q) == IF q = << >> THEN 0 ELSE Head(q).sz + SumSz(Tail(q))
\* PnL::inv: the long sizes less the short sizes.
PnL_inv(p) == SumSz(p.lq) - SumSz(p.sq)

\* The fills one poll of the fills branch can bring: every trade is new (seen
\* drops the others) and has a positive size. The sizes are 0.0001 and 0.0002
\* SOL, whose f64 values are one the double of the other, so that the sizes the
\* queues hold are the exact ones; the prices are two cents apart.
FillSizes == {DustSize, 2 * DustSize}
FillPrices == {20000, 20002}
FillSet == [side : {"buy", "sell"}, sz : FillSizes, px : FillPrices]
PolledFills == {<<f>> : f \in FillSet} \cup {<<f, g>> : f, g \in FillSet}

\* The body of the loop over the polled fills: the rebate, then buy or sell.
RECURSIVE ApplyFills(_, _)
ApplyFills(p, fs) ==
  IF fs = << >> THEN p
  ELSE LET f == Head(fs)
           r == f.sz * f.px * REBATE
       IN ApplyFills(IF f.side = "buy" THEN PnL_buy(p, f.px, f.sz, r)
                                       ELSE PnL_sell(p, f.px, f.sz, r), Tail(fs))

\* The same fills paired off first in, first out with no threshold: a match
\* takes the smaller of the two sizes, an entry leaves when nothing is left of
\* it, and every rest joins its own queue.
RECURSIVE PairOff(_, _, _, _)
PairOff(q, rem, px, side) ==
  IF rem > 0 /\ q # << >>
  THEN LET e == Head(q)
           m == Min(rem, e.sz)
           r == PairOff(IF m = e.sz THEN Tail(q)
                                    ELSE <<[e EXCEPT !.sz = @ - m]>> \o Tail(q),
                        rem - m, px, side)
       IN [r EXCEPT !.gain = @ + m * (IF side = "buy" THEN e.px - px ELSE px - e.px)]
  ELSE [q |-> q, rem |-> rem, gain |-> 0]
RECURSIVE Paired(_, _)
Paired(b, fs) ==
  IF fs = << >> THEN b
  ELSE LET f == Head(fs)
           w == PairOff(IF f.side = "buy" THEN b.sq ELSE b.lq, f.sz, f.px, f.side)
           own == IF f.side = "buy" THEN b.lq ELSE b.sq
           grown == IF w.rem > 0 THEN Append(own, [px |-> f.px, sz |-> w.rem]) ELSE own
       IN Paired([lq |-> IF f.side = "buy" THEN grown ELSE w.q,
                  sq |-> IF f.side = "buy" THEN w.q ELSE grown,
                  spread |-> b.spread + w.gain], Tail(fs))

\* The engine state the fills branch and on_fill leave alone.
quoting == <<cells, commitments, balances, ofi_paused, nextId, active,
             recently_cancelled, shutting_down, run>>

\* The fills branch of the select loop: the new fills of the poll are applied
\* to the P&L book in the order of the reply.
Fills ==
  /\ Running
  /\ \E fs \in PolledFills :
       /\ pnl.buys + pnl.sells + Len(fs) <= MaxFills
       /\ pnl' = ApplyFills(pnl, fs)
       /\ fifo' = Paired(fifo, fs)
  /\ last' = NoLast
  /\ UNCHANGED <<quoting, om, wsc, rate_limiter, template, shelf>>

\* poll_fills: the reply lists the latest PageSize trades, newest first; an item
\* whose tradeId is in `seen` is skipped, any other is inserted in `seen` and,
\* its size being positive, pushed to the result.
\* Faulty variant of Unseen: every item counts as new.
UnseenAlways(seen, tid) == TRUE
Unseen(seen, tid) == tid \notin seen
Page(trades) ==
  [k \in 1..Min(PageSize, Len(trades)) |-> trades[Len(trades) - k + 1]]
RECURSIVE poll_fills(_, _, _)
poll_fills(items, seen, out) ==
  IF items = << >> THEN [seen |-> seen, out |-> out]
  ELSE LET i == Head(items)
       IN IF ~Unseen(seen, i.tid) THEN poll_fills(Tail(items), seen, out)
          ELSE poll_fills(Tail(items), seen \cup {i.tid},
                          IF i.sz > 0 THEN Append(out, i) ELSE out)
\* The exchange matches an order of the account: a trade with the next tradeId.
AccountTrade ==
  /\ Len(feed.trades) < MaxTrades
  /\ \E f \in FillSet :
       feed' = [feed EXCEPT !.trades =
                  Append(@, [side |-> f.side, sz |-> f.sz, px |-> f.px,
                             tid |-> Len(feed.trades) + 1])]
  /\ last' = NoLast
  /\ UNCHANGED <<quoting, books, wsc, rate_limiter, template, order_book, monitor, machine>>
\* The fills branch with its poll: poll_fills on the reply (an empty result
\* when the request fails), then every fill of the result applied to the P&L
\* book.
PollFills ==
  /\ Running
  /\ \E replied \in BOOLEAN :
       LET r == IF replied THEN poll_fills(Page(feed.trades), feed.seen, << >>)
                ELSE [seen |-> feed.seen, out |-> << >>]
       IN /\ pnl.buys + pnl.sells + Len(r.out) <= MaxFills
          /\ pnl' = ApplyFills(pnl, r.out)
          /\ fifo' = Paired(fifo, r.out)
          /\ feed' = [feed EXCEPT
                        !.seen = r.seen,
                        !.skipped = IF replied
                                    THEN {Page(feed.trades)[k].tid :
                                            k \in DOMAIN Page(feed.trades)}
                                           \cap feed.seen
                                    ELSE {},
                        !.applied = [t \in DOMAIN @ |->
                           @[t] + Cardinality({k \in DOMAIN r.out : r.out[k].tid = t})]]
  /\ last' = [NoLast EXCEPT !.op = "fills"]
  /\ UNCHANGED <<quoting, om, wsc, rate_limiter, template, order_book, monitor, machine>>

\* OrderManager::on_fill, called for a match message of the private channel
\* (price > 0 and size > 0): the position moves by the size; a buy at a
\* position >= 0 joins the long queue whole, a buy at a short position covers
\* the short queue and what is left above 0.0001 joins the long queue; a sell
\* mirrors it. The position is the exact sum of the sizes. The volume, fee and
\* average-entry statistics are not kept.
on_fill(o, f) ==
  IF f.side = "buy"
  THEN IF o.position >= 0
       THEN [o EXCEPT !.position = @ + f.sz, !.fills_count = @ + 1,
                      !.long_entries = Append(@, [px |-> f.px, sz |-> f.sz])]
       ELSE LET w == Walk(o.short_entries, f.sz, f.px, "buy")
            IN [o EXCEPT !.position = @ + f.sz, !.fills_count = @ + 1,
                         !.short_entries = w.q, !.spread_pnl = @ + w.gain,
                         !.long_entries =
                            IF AboveDust(w.rem)
                            THEN Append(@, [px |-> f.px, sz |-> w.rem]) ELSE @]
  ELSE IF o.position <= 0
       THEN [o EXCEPT !.position = @ - f.sz, !.fills_count = @ + 1,
                      !.short_entries = Append(@, [px |-> f.px, sz |-> f.sz])]
       ELSE LET w == Walk(o.long_entries, f.sz, f.px, "sell")
            IN [o EXCEPT !.position = @ - f.sz, !.fills_count = @ + 1,
                         !.long_entries = w.q, !.spread_pnl = @ + w.gain,
                         !.short_entries =
                            IF AboveDust(w.rem)
                            THEN Append(@, [px |-> f.px, sz |-> w.rem]) ELSE @]
OnFill ==
  /\ om.fills_count < MaxFills
  /\ \E f \in FillSet : om' = on_fill(om, f)
  /\ last' = NoLast
  /\ UNCHANGED <<quoting, pnl, fifo, wsc, rate_limiter, template, shelf>>

\* ------------------------------------------------------------ streaming client
\* The single caller is the quoting loop, which awaits every place_order and
\* cancel_order before it goes on. A call: get_sender, next_id and the insert
\* into the pending map; then the send on the outgoing channel; then the wait
\* for the reply slot or the 5 s timeout.
WsStep(op) == [NoLast EXCEPT !.op = op]

\* get_sender (the sender is stored since start()), next_id: fetch_add on
\* request_counter, and pending.insert(id).
WsRegister ==
  /\ Running
  /\ wsc.call.st = "idle"
  /\ wsc.request_counter < MaxRequests
  /\ \E op \in {"place", "cancel"} :
       wsc' = [wsc EXCEPT !.call = [st |-> "registered", id |-> wsc.request_counter,
                                    op |-> op],
                          !.request_counter = @ + 1,
                          !.issued = @ \cup {wsc.request_counter},
                          !.pending = @ \cup {wsc.request_counter},
                          !.ret = NoRet]
  /\ last' = WsStep("ws_register")
  /\ UNCHANGED <<quoting, books, rate_limiter, template, shelf>>

\* tx.send(msg).await?: the message joins the outgoing channel; when the
\* connection task that held the receiver has ended, the send fails and the call
\* returns the error at once.
WsSend ==
  /\ wsc.call.st = "registered"
  /\ wsc' = IF wsc.connected
            THEN [wsc EXCEPT !.call.st = "waiting",
                             !.outq = Append(@, wsc.call.id)]
            ELSE [wsc EXCEPT !.call = NoCall,
                             !.ret = [id |-> wsc.call.id, out |-> "send_failed",
                                      reply |-> 0]]
  /\ last' = WsStep("ws_send")
  /\ UNCHANGED <<quoting, books, rate_limiter, template, shelf>>

\* The timeout arm: the 5 s pass with the slot unresolved, the caller removes
\* its id from the pending map and returns the error.
WsTimeout ==
  /\ wsc.call.st = "waiting"
  /\ wsc.call.id \in wsc.pending
  /\ wsc' = [wsc EXCEPT !.call = NoCall, !.pending = @ \ {wsc.call.id},
                        !.ret = [id |-> wsc.call.id, out |-> "timeout", reply |-> 0]]
  /\ last' = WsStep("ws_timeout")
  /\ UNCHANGED <<quoting, books, rate_limiter, template, shelf>>

\* The connection task, rx.recv arm: the next outgoing message is written to
\* the socket and reaches the server.
HandlerForward ==
  /\ wsc.connected
  /\ wsc.outq # << >>
  /\ wsc' = [wsc EXCEPT !.outq = Tail(@), !.atServer = @ \cup {Head(wsc.outq)}]
  /\ last' = WsStep("ws_forward")
  /\ UNCHANGED <<quoting, books, rate_limiter, template, shelf>>

\* The server's end. It sends the sessionId message once per connection, and
\* answers an order request, under the request's id, only on a session whose
\* signature it has received.
ServerSession ==
  /\ wsc.connected
  /\ wsc.session = "none"
  /\ wsc' = [wsc EXCEPT !.session = "offered",
                        !.inbound = @ \cup {[kind |-> "session", id |-> 0]}]
  /\ last' = WsStep("server_session")
  /\ UNCHANGED <<quoting, books, rate_limiter, template, shelf>>
ServerReply ==
  /\ wsc.connected
  /\ wsc.session = "signed"
  /\ \E id \in wsc.atServer :
       wsc' = [wsc EXCEPT !.atServer = @ \ {id},
                          !.inbound = @ \cup {[kind |-> "reply", id |-> id]}]
  /\ last' = WsStep("server_reply")
  /\ UNCHANGED <<quoting, books, rate_limiter, template, shelf>>

\* Faulty variant of Resolve: the reply is handed to the call under way,
\* whatever its id.
ResolveAny(w, id) ==
  IF w.call.st = "waiting"
  THEN [w EXCEPT !.pending = @ \ {w.call.id}, !.call = NoCall,
                 !.ret = [id |-> w.call.id, out |-> "reply", reply |-> id]]
  ELSE w
\* The connection task, read arm, for a text message with an id: the slot under
\* that id is taken out of the pending map, if there is one, and the response
\* is sent on it; the caller that waits on the slot returns it.
Resolve(w, id) ==
  IF id \in w.pending
  THEN IF w.call.st = "waiting" /\ w.call.id = id
       THEN [w EXCEPT !.pending = @ \ {id}, !.call = NoCall,
                      !.ret = [id |-> id, out |-> "reply", reply |-> id]]
       ELSE [w EXCEPT !.pending = @ \ {id}]
  ELSE w
\* Faulty variant of OnSession: the handler of a reconnection signs as well.
OnSessionSigned(w) == [w EXCEPT !.session = "signed"]
\* The read arm for the sessionId message. The handler of the first connection
\* signs the raw text and writes the signature; the handler spawned on a
\* reconnection looks only for an id and lets the message go.
OnSession(w) ==
  [w EXCEPT !.session = IF w.handler = "initial" THEN "signed" ELSE "unanswered"]
HandlerRecv ==
  /\ wsc.connected
  /\ \E msg \in wsc.inbound :
       LET w == [wsc EXCEPT !.inbound = @ \ {msg}]
       IN wsc' = IF msg.kind = "session" THEN OnSession(w) ELSE Resolve(w, msg.id)
  /\ last' = WsStep("ws_recv")
  /\ UNCHANGED <<quoting, books, rate_limiter, template, shelf>>

\* The connection ends (close frame, read or write error): the loop is left,
\* connected is cleared and the task ends, dropping the receiver of the outgoing
\* channel with what it still held. The stored sender is left as it is.
WsDisconnect ==
  /\ wsc.connected
  /\ wsc' = [wsc EXCEPT !.connected = FALSE, !.outq = << >>, !.atServer = {},
                        !.inbound = {}]
  /\ last' = WsStep("ws_disconnect")
  /\ UNCHANGED <<quoting, books, rate_limiter, template, shelf>>
\* The reconnection monitor: a new socket and outgoing channel, the new sender
\* stored, connected set, and the reconnection's handler spawned.
WsReconnect ==
  /\ ~wsc.connected
  /\ wsc' = [wsc EXCEPT !.connected = TRUE, !.handler = "reconnected",
                        !.session = "none"]
  /\ last' = WsStep("ws_reconnect")
  /\ UNCHANGED <<quoting, books, rate_limiter, template, shelf>>

\* ------------------------------------------------------------ reconnection monitor
\* max_reconnect_attempts of WsOrderClientV2::new.
max_reconnect_attempts == 10
\* delay_secs = (1u64 << failures.min(5)).min(30)
\* Faulty variant of Backoff: the delay is not capped at 30 s.
BackoffUncapped(failures) == 2 ^ Min(failures, 5)
Backoff(failures) == Min(2 ^ Min(failures, 5), 30)
\* A check of the monitor that finds the client disconnected and not
\* reconnecting: with max_reconnect_attempts failures in a row it leaves its
\* loop, and else it sleeps the backoff delay.
MonitorCheck ==
  /\ monitor.phase = "watching"
  /\ ~wsc.connected
  /\ monitor' = IF monitor.failures >= max_reconnect_attempts
                THEN [monitor EXCEPT !.phase = "stopped"]
                ELSE [monitor EXCEPT !.phase = "sleeping",
                                     !.delay = Backoff(monitor.failures)]
  /\ last' = WsStep("ws_monitor")
  /\ UNCHANGED <<quoting, books, wsc, rate_limiter, template, order_book, feed,
                 machine>>
\* After the sleep, connect_async: on Ok the new sender is stored, connected
\* set, consecutive_failures stored 0 and the handler spawned; on Err
\* consecutive_failures is incremented.
MonitorConnect ==
  /\ monitor.phase = "sleeping"
  /\ \E ok \in BOOLEAN :
       IF ok
       THEN /\ monitor.connects < MaxReconnects
            /\ wsc' = [wsc EXCEPT !.connected = TRUE, !.handler = "reconnected",
                                  !.session = "none"]
            /\ monitor' = [monitor EXCEPT !.phase = "watching", !.failures = 0,
                                          !.connects = @ + 1]
       ELSE /\ wsc' = wsc
            /\ monitor' = [monitor EXCEPT !.phase = "watching",
                                          !.failures = @ + 1]
  /\ last' = WsStep("ws_connect")
  /\ UNCHANGED <<quoting, books, rate_limiter, template, order_book, feed, machine>>

\* ------------------------------------------------------------ order state machine
OrderStates ==
  {"PendingNew", "Open", "PartiallyFilled", "PendingModify", "PendingCancel",
   "Filled", "Cancelled", "Rejected", "Expired"}
StateTransitions ==
  {"Acknowledge", "PartialFill", "Fill", "ModifyRequest", "ModifyAck",
   "CancelRequest", "CancelAck", "Reject", "Expire"}
is_terminal(state) == state \in {"Filled", "Cancelled", "Rejected", "Expired"}
\* The client_oids of the calls: 1 is registered at some point, 2 never is.
Oids == {1, 2}
OrderSizes == {2}
FillSizesOf == {1, 2}
\* OrderInfo::new: PendingNew, nothing filled, the history holding PendingNew.
OrderInfo_new(size) ==
  [state |-> "PendingNew", original_size |-> size, filled_size |-> 0,
   state_history |-> <<"PendingNew">>]

\* The match of transition on (order.state, transition); "Invalid" is the
\* Err("Invalid state transition") arm.
\* Faulty variant of NextState: a Fill is also accepted while a cancel or a
\* modify is pending.
NextStatePendingFill(state, ev) ==
  CASE state = "PendingNew" /\ ev = "Acknowledge" -> "Open"
    [] state = "PendingNew" /\ ev = "Reject" -> "Rejected"
    [] state = "Open" /\ ev = "PartialFill" -> "PartiallyFilled"
    [] state \in {"Open", "PartiallyFilled", "PendingCancel", "PendingModify"}
         /\ ev = "Fill" -> "Filled"
    [] state = "Open" /\ ev = "Expire" -> "Expired"
    [] state \in {"Open", "PartiallyFilled"} /\ ev = "ModifyRequest" -> "PendingModify"
    [] state = "PendingModify" /\ ev = "ModifyAck" -> "Open"
    [] state \in {"Open", "PartiallyFilled"} /\ ev = "CancelRequest" -> "PendingCancel"
    [] state = "PendingCancel" /\ ev = "CancelAck" -> "Cancelled"
    [] OTHER -> "Invalid"
NextState(state, ev) ==
  CASE state = "PendingNew" /\ ev = "Acknowledge" -> "Open"
    [] state = "PendingNew" /\ ev = "Reject" -> "Rejected"
    [] state = "Open" /\ ev = "PartialFill" -> "PartiallyFilled"
    [] state = "Open" /\ ev = "Fill" -> "Filled"
    [] state = "PartiallyFilled" /\ ev = "Fill" -> "Filled"
    [] state = "Open" /\ ev = "Expire" -> "Expired"
    [] state = "Open" /\ ev = "ModifyRequest" -> "PendingModify"
    [] state = "PartiallyFilled" /\ ev = "ModifyRequest" -> "PendingModify"
    [] state = "PendingModify" /\ ev = "ModifyAck" -> "Open"
    [] state = "Open" /\ ev = "CancelRequest" -> "PendingCancel"
    [] state = "PartiallyFilled" /\ ev = "CancelRequest" -> "PendingCancel"
    [] state = "PendingCancel" /\ ev = "CancelAck" -> "Cancelled"
    [] OTHER -> "Invalid"
\* What self.transition(client_oid, ev) leaves in `orders`, and whether it
\* returned Ok: Err("Order not found") for an unknown client_oid, Err for a pair
\* outside the match, and else the new state stored and pushed to the history.
Transitioned(orders, oid, ev) ==
  IF oid \notin DOMAIN orders THEN [orders |-> orders, ok |-> FALSE]
  ELSE LET new_state == NextState(orders[oid].state, ev)
       IN IF new_state = "Invalid" THEN [orders |-> orders, ok |-> FALSE]
          ELSE [orders |-> [orders EXCEPT ![oid].state = new_state,
                                          ![oid].state_history = Append(@, new_state)],
                ok |-> TRUE]
StateOf(orders, oid) == IF oid \in DOMAIN orders THEN orders[oid].state ELSE "none"

register_order ==
  /\ 1 \notin DOMAIN machine.orders
  /\ \E size \in OrderSizes :
       machine' = [orders |-> machine.orders @@ (1 :> OrderInfo_new(size)),
                   call |-> [NoMachineCall EXCEPT !.op = "register_order", !.oid = 1,
                                                  !.ok = TRUE]]
  /\ last' = NoLast
  /\ UNCHANGED <<quoting, books, wsc, rate_limiter, template, order_book, feed,
                 monitor>>
transition ==
  /\ \E oid \in Oids, ev \in StateTransitions :
       LET r == Transitioned(machine.orders, oid, ev)
       IN /\ oid \in DOMAIN machine.orders
               => Len(machine.orders[oid].state_history) < MaxHistory
          /\ machine' = [orders |-> r.orders,
                         call |-> [op |-> "transition", oid |-> oid, ev |-> ev,
                                   ok |-> r.ok,
                                   pre |-> StateOf(machine.orders, oid)]]
  /\ last' = NoLast
  /\ UNCHANGED <<quoting, books, wsc, rate_limiter, template, order_book, feed,
                 monitor>>
\* record_fill: nothing for an unknown client_oid; else the fill is added, and
\* the order is sent Fill when filled_size has reached original_size, or
\* PartialFill when it has not and the order is Open; the result of that
\* transition is dropped.
record_fill ==
  /\ \E oid \in Oids, fill_size \in FillSizesOf :
       LET added == IF oid \in DOMAIN machine.orders
                    THEN [machine.orders EXCEPT ![oid].filled_size = @ + fill_size]
                    ELSE machine.orders
           r == IF oid \notin DOMAIN added THEN [orders |-> added, ok |-> FALSE]
                ELSE IF added[oid].filled_size >= added[oid].original_size
                     THEN Transitioned(added, oid, "Fill")
                ELSE IF added[oid].state = "Open"
                     THEN Transitioned(added, oid, "PartialFill")
                ELSE [orders |-> added, ok |-> FALSE]
       IN /\ oid \in DOMAIN machine.orders
               => /\ machine.orders[oid].filled_size + fill_size <= MaxFilled
                  /\ Len(machine.orders[oid].state_history) < MaxHistory
          /\ machine' = [orders |-> r.orders,
                         call |-> [op |-> "record_fill", oid |-> oid, ev |-> "none",
                                   ok |-> r.ok,
                                   pre |-> StateOf(machine.orders, oid)]]
  /\ last' = NoLast
  /\ UNCHANGED <<quoting, books, wsc, rate_limiter, template, order_book, feed,
                 monitor>>

\* ------------------------------------------------------------ rate limiter
\* TokenBucket::refill after `elapsed` (in the time one token takes to refill),
\* and wait_and_consume(1.0): refill, take the token when there is one, and
\* else sleep until it has refilled and take it.
refill(b, elapsed) == [b EXCEPT !.tokens = Min(b.max_tokens, @ + elapsed)]
wait_and_consume(b, elapsed) ==
  [refill(b, elapsed) EXCEPT !.tokens = IF @ >= 1 THEN @ - 1 ELSE 0]

\* ------------------------------------------------------------ order template
\* next_oid: fetch_add on the counter, and the id is the prefix with the count
\* drawn. build_bid and build_ask call it with their prefix.
AfterDrawStuck(c) == c
AfterDraw(c) == c + 1
next_oid(t, prefix) ==
  [counter |-> AfterDraw(t.counter),
   issued |-> Append(t.issued, <<prefix, t.counter>>)]
build_bid ==
  /\ Len(template.issued) < MaxOids
  /\ template' = next_oid(template, "bid")
  /\ last' = NoLast
  /\ UNCHANGED <<quoting, books, wsc, rate_limiter, shelf>>
build_ask ==
  /\ Len(template.issued) < MaxOids
  /\ template' = next_oid(template, "ask")
  /\ last' = NoLast
  /\ UNCHANGED <<quoting, books, wsc, rate_limiter, shelf>>
\* reset_counter: the counter is stored 0; the ids issued from here on are the
\* ones since the last reset.
reset_counter ==
  /\ template.issued # << >>
  /\ template' = NewTemplate
  /\ last' = NoLast
  /\ UNCHANGED <<quoting, books, wsc, rate_limiter, shelf>>
\* current_count: the counter's value.
current_count(t) == t.counter

\* ------------------------------------------------------------ order book
\* Prices in cents and sizes in 1e-4 SOL; a level is [price, size].
BookPrices == {20000, 20001, 20002}
BookSizes == {1, 2}
PriceLevel(p, sz) == [price |-> p, size |-> sz]
Levels(b, side) == IF side = "bid" THEN b.bids ELSE b.asks

\* The comparators of the two sort_by calls: bids by price descending, asks by
\* price ascending.
\* Faulty variant of Before: both sides ascending.
BeforeAscending(side, a, b) == a.price < b.price
Before(side, a, b) ==
  IF side = "bid" THEN a.price > b.price ELSE a.price < b.price
\* sort_by is a stable sort: each level goes in front of the first level it
\* sorts strictly before.
RECURSIVE Insert(_, _, _)
Insert(sorted, x, side) ==
  IF sorted = << >> THEN <<x>>
  ELSE IF Before(side, x, Head(sorted)) THEN <<x>> \o sorted
  ELSE <<Head(sorted)>> \o Insert(Tail(sorted), x, side)
RECURSIVE sort_by(_, _)
sort_by(levels, side) ==
  IF levels = << >> THEN << >>
  ELSE Insert(sort_by(SubSeq(levels, 1, Len(levels) - 1), side),
              levels[Len(levels)], side)

\* apply_delta: size 0 removes every level at the price; another size is
\* written to the first level at the price, or pushed as a new level and the
\* side sorted again.
DeltaLevels(levels, side, price, size) ==
  IF size = 0
  THEN SelectSeq(levels, LAMBDA l : l.price # price)
  ELSE IF \E i \in DOMAIN levels : levels[i].price = price
       THEN LET at == CHOOSE i \in DOMAIN levels :
                        /\ levels[i].price = price
                        /\ \A j \in 1..(i - 1) : levels[j].price # price
            IN [levels EXCEPT ![at].size = size]
       ELSE sort_by(Append(levels, PriceLevel(price, size)), side)
apply_delta(b, side, price, size) ==
  [bids |-> IF side = "bid" THEN DeltaLevels(b.bids, side, price, size) ELSE b.bids,
   asks |-> IF side = "ask" THEN DeltaLevels(b.asks, side, price, size) ELSE b.asks,
   update |-> [op |-> "delta", side |-> side, price |-> price, size |-> size]]

\* The snapshots of one side the exchange sends: up to SnapshotLevels levels at
\* distinct prices, best price first, none of size 0.
Snapshots(side) ==
  {q \in UNION {[1..n -> [price : BookPrices, size : BookSizes]] :
                  n \in 0..SnapshotLevels} :
     \A i \in 1..(Len(q) - 1) :
       IF side = "bid" THEN q[i].price > q[i + 1].price
       ELSE q[i].price < q[i + 1].price}
update_snapshot ==
  /\ \E bids \in Snapshots("bid"), asks \in Snapshots("ask") :
       order_book' = [bids |-> bids, asks |-> asks,
                      update |-> [NoUpdate EXCEPT !.op = "snapshot"]]
  /\ last' = NoLast
  /\ UNCHANGED <<quoting, books, wsc, rate_limiter, template, feed, monitor, machine>>
\* apply_delta on a book that a snapshot has loaded.
ApplyDelta ==
  /\ order_book.update.op # "none"
  /\ \E side \in Sides, price \in BookPrices, size \in {0} \cup BookSizes :
       order_book' = apply_delta(order_book, side, price, size)
  /\ last' = NoLast
  /\ UNCHANGED <<quoting, books, wsc, rate_limiter, template, feed, monitor, machine>>

\* best_bid / best_ask: the first level's price, None on an empty side.
None == [some |-> FALSE, v |-> 0]
Some(v) == [some |-> TRUE, v |-> v]
best_bid(b) == IF b.bids = << >> THEN None ELSE Some(b.bids[1].price)
best_ask(b) == IF b.asks = << >> THEN None ELSE Some(b.asks[1].price)
\* bid_depth / ask_depth: iter().take(levels).map(size).sum()
RECURSIVE TakeSum(_, _)
TakeSum(levels, n) ==
  IF n = 0 \/ levels = << >> THEN 0
  ELSE Head(levels).size + TakeSum(Tail(levels), n - 1)
bid_depth(b, levels) == TakeSum(b.bids, levels)
ask_depth(b, levels) == TakeSum(b.asks, levels)

Tick == TickIn(Mids, Ofis, Moms, Invs)

Next ==
  \/ Tick
  \/ Recon
  \/ ExchangeFill
  \/ AdvanceTime

Spec == Init /\ [][Next]_vars

\* The OFI gate: order-flow imbalance on both sides of the two thresholds, at
\* them and between them; every tick leaves what it observed in last.
GateOfis == {-70, -50, 0, 35, 60, 70}
TickOfi == TickObs({20000}, GateOfis, {0}, {0}, TRUE)
ReconOfi == ReconIn({[sol |-> 600, usdt |-> 25000000]}, TRUE)
NextOfi ==
  \/ TickOfi
  \/ ReconOfi
  \/ ExchangeFill
  \/ AdvanceTime
SpecOfi == Init /\ [][NextOfi]_vars

\* Orphans: the engine starts on an account whose book still holds orders it
\* does not know (the startup cancel-all ignores its result), two asks above
\* the market for every bid below it. The orphan cancels, whose results the
\* loop ignores, do not reach the exchange: the orders stay on the book.
Leftover ==
  {[id |-> MaxOrders + k, lvl |-> 0, side |-> IF k % 3 = 0 THEN "bid" ELSE "ask",
    price |-> IF k % 3 = 0 THEN 19000 ELSE 21000, size |-> SizeStep] :
     k \in 1..NumLeftover}
InitLeftover ==
  /\ cells = [l \in 1..NumLevels |-> [bid |-> EmptyCell, ask |-> EmptyCell]]
  /\ commitments = ZeroCommit
  /\ balances \in Bals \cup {ZeroBal}
  /\ ofi_paused = FALSE
  /\ nextId = 1
  /\ active = Leftover
  /\ recently_cancelled = {}
  /\ shutting_down = FALSE
  /\ last = NoLast
  /\ InitAside
TickOrphans == TickIn({20000}, {0}, {0}, {0})
ReconOrphans == ReconIn({[sol |-> 600, usdt |-> 25000000]}, FALSE)
NextOrphans ==
  \/ TickOrphans
  \/ ReconOrphans
  \/ AdvanceTime
SpecOrphans == InitLeftover /\ [][NextOrphans]_vars

\* The trend filter: momentum below, between and above the two thresholds, the
\* inventory at the 0.05 SOL limit of the downtrend skip and long 1 SOL.
TrendMoms == {-5, 0, 5}
TrendInvs == {SolUnit \div 20, SolUnit}
TickTrend == TickObs({20000}, {0}, TrendMoms, TrendInvs, TRUE)
ReconTrend == ReconIn({[sol |-> 600, usdt |-> 25000000]}, TRUE)
NextTrend ==
  \/ TickTrend
  \/ ReconTrend
  \/ ExchangeFill
  \/ AdvanceTime
SpecTrend == Init /\ [][NextTrend]_vars

\* Shutdown: the engine quotes at one mid until ctrl-c arrives.
TickShutdown == TickIn({20000}, {0}, {0}, {0})
ReconShutdown == ReconIn({[sol |-> 600, usdt |-> 25000000]}, TRUE)
NextShutdown ==
  \/ TickShutdown
  \/ ReconShutdown
  \/ ExchangeFill
  \/ AdvanceTime
  \/ Shutdown
SpecShutdown == Init /\ [][NextShutdown]_vars

\* The balance guard across the levels of one tick: BudgetLevels levels, a
\* quote balance that covers one bid of the tick and not two, and no base
\* balance.
BudgetBal == [sol |-> 0, usdt |-> 15000000]
InitBudget ==
  /\ cells = [l \in 1..BudgetLevels |-> [bid |-> EmptyCell, ask |-> EmptyCell]]
  /\ commitments = ZeroCommit
  /\ balances = BudgetBal
  /\ ofi_paused = FALSE
  /\ nextId = 1
  /\ active = {}
  /\ recently_cancelled = {}
  /\ shutting_down = FALSE
  /\ last = NoLast
  /\ InitAside
TickBudget == TickObs({20000}, {0}, {0}, {0}, TRUE)
ReconBudget == ReconIn({BudgetBal}, FALSE)
NextBudget ==
  \/ TickBudget
  \/ ReconBudget
SpecBudget == InitBudget /\ [][NextBudget]_vars

\* The level loop over BudgetLevels levels with both sides funded: the mid moves
\* between ticks so that resting quotes go stale.
LevelsBal == [sol |-> 600, usdt |-> 25000000]
InitLevels ==
  /\ cells = [l \in 1..BudgetLevels |-> [bid |-> EmptyCell, ask |-> EmptyCell]]
  /\ commitments = ZeroCommit
  /\ balances = LevelsBal
  /\ ofi_paused = FALSE
  /\ nextId = 1
  /\ active = {}
  /\ recently_cancelled = {}
  /\ shutting_down = FALSE
  /\ last = NoLast
  /\ InitAside
TickLevels == TickObs(Mids, {0}, {0}, {0}, TRUE)
ReconLevels == ReconIn({LevelsBal}, FALSE)
NextLevels ==
  \/ TickLevels
  \/ ReconLevels
SpecLevels == InitLevels /\ [][NextLevels]_vars

\* The inventory guard across the levels of one tick: BudgetLevels levels and a
\* quote balance for a bid on each, the inventory long and NearLimit.
TickInventory == TickObs({20000}, {0}, {0}, {NearLimit}, TRUE)
NextInventory ==
  \/ TickInventory
  \/ ReconLevels
SpecInventory == InitLevels /\ [][NextInventory]_vars

\* The clientOids of the place requests: BudgetLevels levels, MaxTicks counted
\* ticks with the mid moving between them, so that a cell is placed in more
\* than one tick.
TickOids == TickCounted(Mids, {0}, {0}, {0})
NextOids ==
  \/ TickOids
  \/ ReconLevels
SpecOids == InitLevels /\ [][NextOids]_vars

\* Sizing: the reference mid at 2001.00, where ORDER_USD buys less than half a
\* size step, with the inventory flat and long 1 SOL.
SizingMids == {200100}
TickSizing == TickObs(SizingMids, {0}, {0}, {0, SolUnit}, TRUE)
ReconSizing == ReconIn({[sol |-> 600, usdt |-> 25000000]}, TRUE)
NextSizing ==
  \/ TickSizing
  \/ ReconSizing
SpecSizing == Init /\ [][NextSizing]_vars

\* The P&L book: the fills branch alone, up to MaxFills fills.
InitPnl == Init /\ balances = ZeroBal
NextPnl ==
  \/ Fills
SpecPnl == InitPnl /\ [][NextPnl]_vars

\* The fills branch against the fills endpoint: trades happen and polls run in
\* any order, so that a poll returns trades earlier polls returned.
NextFills ==
  \/ AccountTrade
  \/ PollFills
SpecFills == InitPnl /\ [][NextFills]_vars

\* The order manager of the private channel: on_fill alone, up to MaxFills
\* fills.
NextOrderManager ==
  \/ OnFill
SpecOrderManager == InitPnl /\ [][NextOrderManager]_vars

\* The order template: callers of build_bid, build_ask and reset_counter in
\* any order, every call one atomic operation on the counter, up to MaxOids ids
\* between two resets.
NextTemplate ==
  \/ build_bid
  \/ build_ask
  \/ reset_counter
SpecTemplate == InitPnl /\ [][NextTemplate]_vars

\* The order book: snapshots and deltas in any order after the first snapshot.
NextBook ==
  \/ update_snapshot
  \/ ApplyDelta
SpecBook == InitPnl /\ [][NextBook]_vars

\* The streaming client: up to MaxRequests calls of the quoting loop, the
\* connection task, the reconnection monitor and the server.
NextWs ==
  \/ WsRegister
  \/ WsSend
  \/ WsTimeout
  \/ HandlerForward
  \/ HandlerRecv
  \/ ServerSession
  \/ ServerReply
  \/ WsDisconnect
  \/ WsReconnect
SpecWs == InitPnl /\ [][NextWs]_vars

\* The reconnection monitor: connections end, and the monitor's connects
\* succeed (up to MaxReconnects times) or fail.
NextMonitor ==
  \/ WsDisconnect
  \/ MonitorCheck
  \/ MonitorConnect
SpecMonitor == InitPnl /\ [][NextMonitor]_vars

\* The order state machine: an order is registered, and transitions and fills
\* are called in any order, for its client_oid and for an unknown one.
NextMachine ==
  \/ register_order
  \/ transition
  \/ record_fill
SpecMachine == InitPnl /\ [][NextMachine]_vars

\* Stuck-cancel recovery: the reconciliation interval fires every second, so a
\* reconciliation that is due is run; time also passes in steps that leave a
\* pending cancel between 5 and 6 seconds old.
RecoverySteps == {5 * TicksPerSec + 1, 6 * TicksPerSec}
TickRecovery == TickIn(Mids, {0}, Moms, {0})
ReconRecovery == ReconIn({[sol |-> 600, usdt |-> 25000000]}, TRUE)
AdvanceRecovery == AdvanceTimeIn(RecoverySteps)
NextRecovery ==
  \/ TickRecovery
  \/ ReconRecovery
  \/ ExchangeFill
  \/ AdvanceRecovery
SpecRecovery == Init /\ [][NextRecovery]_vars /\ WF_vars(ReconRecovery)

\* ------------------------------------------------------------ properties
\* The requests of the tick just run, and the permitted edges of a cell.
Reqs == {last.reqs[i] : i \in DOMAIN last.reqs}
Edges ==
  {<<"Empty", "Live">>, <<"Live", "Empty">>, <<"Live", "CancelPending">>,
   <<"CancelPending", "Empty">>, <<"CancelPending", "CancelStuck">>,
   <<"CancelStuck", "Empty">>}
UsdtBound == balances.usdt - (balances.usdt * BALANCE_SAFETY_BUFFER_PCT) \div 100
SolBound == balances.sol - (balances.sol * BALANCE_SAFETY_BUFFER_PCT) \div 100

\* C1: the controller sends a place request only for a cell that is Empty and a
\* cancel request only for a cell that is Live at the moment of sending; a cell
\* holds one exchange order id, and none exactly when it is Empty.
C1_RequestsMatchCellState ==
  /\ \A r \in Reqs : /\ r.op = "place" => r.pre.st = "Empty"
                     /\ r.op = "cancel" => r.pre.st = "Live"
  /\ \A l \in Lv, s \in Sides :
       /\ (cells[l][s].st = "Empty") <=> (cells[l][s].id = 0)
       /\ cells[l][s].id \in 0..MaxOrders
\* A tick that cancelled a cell's order for refresh and placed its replacement.
C1_Witness ==
  \E r1, r2 \in Reqs : /\ r1.op = "cancel" /\ r2.op = "place"
                       /\ r1.lvl = r2.lvl /\ r1.side = r2.side

\* C2: when the fetch of the active orders fails, the reconciliation tick makes
\* no cell transition.
C2_FailedFetchNoTransition ==
  (last.op = "recon" /\ ~last.ok) => last.moves = {}

\* C3: at most one order placed by the engine for a cell is active on the
\* exchange, whatever acks are lost, timeouts occur or fetches fail; and a cell
\* does not become Empty while the order it held is still active.
C3_OneActiveOrderPerCell ==
  /\ \A l \in Lv, s \in Sides :
       Cardinality({o \in active : o.lvl = l /\ o.side = s}) <= 1
  /\ \A r \in Reqs :
       (r.pre.st # "Empty" /\ r.post.st = "Empty") => r.pre.id \notin IdsOf(active)
  /\ \A m \in last.moves :
       m.to.st = "Empty" => m.from.id \notin IdsOf(active)

\* C4 (as stated): in every reachable state the in-flight plus live commitment
\* is at most the cached balance less the 2% buffer, for quote and for base.
C4_CommitmentsWithinBalance ==
  /\ total_usdt(commitments) <= UsdtBound
  /\ total_sol(commitments) <= SolBound
\* C4 (amended): after a tick that sent a place request for a side, that
\* side's in-flight plus live commitment is at most the cached balance less the
\* 2% buffer.
C4_PlacementWithinBalance ==
  \A r \in Reqs : r.op = "place" =>
    IF r.side = "bid" THEN total_usdt(commitments) <= UsdtBound
    ELSE total_sol(commitments) <= SolBound
\* A bid was placed and charged while an earlier bid still counts as live.
C4_Witness ==
  /\ commitments.live_usdt > 0
  /\ \E r \in Reqs : r.op = "place" /\ r.side = "bid" /\ r.charge > 0

\* C5: after a reconciliation tick the in-flight commitments are zero and every
\* cell that is not Empty holds an id of the fetched list.
C5_AfterReconTrackedAreFetched ==
  last.op = "recon" =>
    /\ commitments.inflight_usdt = 0 /\ commitments.inflight_sol = 0
    /\ \A l \in Lv, s \in Sides :
         ~is_empty(cells[l][s]) => cells[l][s].id \in IdsOf(last.orders)
\* A reconciliation that emptied a cell whose order was gone and kept another.
C5_Witness ==
  /\ last.op = "recon" /\ last.ok
  /\ \E m \in last.moves : m.from.st = "Live" /\ m.to.st = "Empty"
  /\ \E l \in Lv, s \in Sides : ~is_empty(cells[l][s])

\* C6 (as stated): after a reconciliation tick live_usdt is the sum of
\* size * price over the fetched buy orders and live_sol the sum of size over
\* the fetched sell orders.
C6_LiveIsSumOfFetched ==
  last.op = "recon" =>
    /\ commitments.live_usdt =
         SumCommitted({o \in last.orders : o.side = "bid"}, "bid")
    /\ commitments.live_sol =
         SumCommitted({o \in last.orders : o.side = "ask"}, "ask")
\* C6 (amended): after a reconciliation tick live_usdt is the sum of
\* size * price over the fetched orders whose id a Live bid cell holds, and
\* live_sol the sum of size over those whose id a Live ask cell holds.
C6_LiveIsSumOfLiveCells ==
  last.op = "recon" =>
    /\ commitments.live_usdt =
         SumCommitted({o \in last.orders :
                         \E l \in Lv : is_live(cells[l].bid) /\ cells[l].bid.id = o.id},
                      "bid")
    /\ commitments.live_sol =
         SumCommitted({o \in last.orders :
                         \E l \in Lv : is_live(cells[l].ask) /\ cells[l].ask.id = o.id},
                      "ask")
\* A reconciliation that fetched a Live cell's order together with an order
\* that no Live cell holds.
C6_Witness ==
  /\ last.op = "recon" /\ commitments.live_usdt > 0
  /\ \E o \in last.orders :
       \A l \in Lv, s \in Sides : ~(is_live(cells[l][s]) /\ cells[l][s].id = o.id)

\* C7: every change of a cell follows a permitted edge, and a cell becomes Live
\* only on a place request acknowledged with success.
C7_OnlyPermittedEdges ==
  /\ \A r \in Reqs :
       /\ r.pre.st = r.post.st => r.pre = r.post
       /\ r.pre.st # r.post.st => <<r.pre.st, r.post.st>> \in Edges
       /\ (r.pre.st # "Live" /\ r.post.st = "Live") =>
            r.op = "place" /\ r.res = "OkId"
  /\ \A m \in last.moves :
       <<m.from.st, m.to.st>> \in Edges /\ m.to.st # "Live"
\* A reconciliation that released a CancelStuck cell.
C7_Witness ==
  \E m \in last.moves : m.from.st = "CancelStuck" /\ m.to.st = "Empty"

\* C8: a cancel the controller sends for a Live cell, for refresh or for
\* inventory or a gate, that gets no success ack leaves the cell CancelPending
\* with attempts = 1.
C8_FailedCancelIsPending ==
  \A r \in Reqs :
    (r.op = "cancel" /\ r.pre.st = "Live" /\ ~WsSuccess(r.res)) =>
      r.post.st = "CancelPending" /\ r.post.attempts = 1

\* C9: a place request without a success ack that carries the order id leaves
\* the cell Empty and the in-flight commitment as it was; the cell becomes Live
\* and the commitment is charged together, on such an ack only.
C9_LiveAndChargeTogether ==
  \A r \in Reqs : r.op = "place" =>
    IF r.res = "OkId"
    THEN r.post.st = "Live" /\ r.post.id > 0 /\ r.charge > 0
    ELSE r.post = r.pre /\ r.post.st = "Empty" /\ r.charge = 0
\* A tick with an acknowledged place and one that got no usable ack.
C9_Witness ==
  \E r1, r2 \in Reqs : /\ r1.op = "place" /\ r1.res = "OkId"
                       /\ r2.op = "place" /\ r2.res # "OkId"

RecoveryStep(whole) ==
  last'.op = "recon" =>
    \A l \in Lv, s \in Sides :
      LET c == cells[l][s]
          d == cells'[l][s]
          present == c.id \in IdsOf(last'.orders)
          timed_out == IF whole THEN AsSecs(c.age) > CANCEL_TIMEOUT_SECS
                       ELSE c.age > CANCEL_TIMEOUT_SECS * TicksPerSec
          gone == d.st = "Empty" /\ c.id \notin IdsOf(active')
      IN /\ c.st = "CancelPending" /\ present /\ timed_out
              => gone \/ (d.st = "CancelStuck" /\ d.id = c.id)
         /\ c.st = "CancelStuck" /\ present => gone \/ d = c
         /\ c.st = "CancelStuck" /\ ~present => d.st = "Empty"

Placed(s) == {r \in Reqs : r.op = "place" /\ r.side = s}

\* C12: ofi_paused changes only in a tick; set, it is cleared exactly by a tick
\* observing |OFI| < 0.35; clear, it is set exactly by a tick observing
\* |OFI| > 0.60; and a tick that leaves it set skips the bids exactly when
\* OFI < 0 and the asks exactly when OFI > 0, placing nothing on a skipped side,
\* while a tick that leaves it clear skips neither side.
C12_OfiHysteresis ==
  [][LET sn == last'.snap
     IN /\ ofi_paused' # ofi_paused => last'.op = "tick"
        /\ last'.op = "tick" =>
             /\ ofi_paused =>
                  (ofi_paused' <=> ~(Abs(sn.ofi) < OFI_RESUME_THRESHOLD))
             /\ ~ofi_paused =>
                  (ofi_paused' <=> Abs(sn.ofi) > OFI_PAUSE_THRESHOLD)
             /\ sn.gate.skipB = (ofi_paused' /\ sn.ofi < 0)
             /\ sn.gate.skipA = (ofi_paused' /\ sn.ofi > 0)
             /\ sn.gate.skipB =>
                  \A i \in DOMAIN last'.reqs :
                    ~(last'.reqs[i].op = "place" /\ last'.reqs[i].side = "bid")
             /\ sn.gate.skipA =>
                  \A i \in DOMAIN last'.reqs :
                    ~(last'.reqs[i].op = "place" /\ last'.reqs[i].side = "ask")]_vars
\* A tick inside the band, with the flag set before and after it: the bids stay
\* skipped at an imbalance that would not have set the flag.
C12_Witness ==
  /\ last.op = "tick"
  /\ last.snap.was /\ ofi_paused
  /\ last.snap.ofi < 0
  /\ Abs(last.snap.ofi) < OFI_PAUSE_THRESHOLD
  /\ last.snap.gate.skipB /\ ~last.snap.gate.skipA
  /\ Placed("ask") # {}

\* C13: in a tick that gates a side, every cell of that side that was Live
\* before the tick is sent a cancel by it: the asks when the OFI gate skips the
\* asks, the bids when the OFI gate skips the bids or the trend is down.
C13_GatedSideIsCancelled ==
  [][last'.op = "tick" =>
       LET sn == last'.snap
           cancelled(l, s) ==
             \E i \in DOMAIN last'.reqs :
               /\ last'.reqs[i].op = "cancel"
               /\ last'.reqs[i].lvl = l
               /\ last'.reqs[i].side = s
       IN \A l \in Lv :
            /\ is_live(cells[l].ask) /\ sn.gate.skipA => cancelled(l, "ask")
            /\ is_live(cells[l].bid)
                 /\ (sn.gate.skipB \/ sn.mom < -MOMENTUM_THRESHOLD)
                 => cancelled(l, "bid")]_vars

\* The orphans of the reconciliation just run: fetched orders that are not
\* tracked and were not in recently_cancelled when the orphan loop began.
Orphans ==
  IdsOf(last.orders)
    \ (last.tracked \cup ({e.id : e \in recently_cancelled} \ last.orph))

\* C14: a reconciliation sends orphan cancels for min(5, number of orphans)
\* orders, all of them orphans, and every id it sent one for is in
\* recently_cancelled, stamped now.
C14_OrphanCancelsAreRateLimited ==
  last.op = "recon" =>
    /\ last.orph \subseteq Orphans
    /\ Cardinality(last.orph) = Min(MAX_ORPHAN_CANCELS_PER_TICK, Cardinality(Orphans))
    /\ \A id \in last.orph : [id |-> id, age |-> 0] \in recently_cancelled
\* Twelve orphans on the book, five cancels sent.
C14_Witness ==
  /\ last.op = "recon"
  /\ Cardinality(Orphans) = 12
  /\ Cardinality(last.orph) = 5

\* C15: a reconciliation sends no orphan cancel for an id whose entry in
\* recently_cancelled is less than ORPHAN_TTL_SECS old, fetched or not; an id
\* whose entry is older, and whose order is fetched and untracked, is sent one
\* again unless the budget of the reconciliation is spent.
C15_OrphanCancelTtl ==
  [][last'.op = "recon" =>
       \A e \in recently_cancelled :
         /\ AsSecs(e.age) < ORPHAN_TTL_SECS => e.id \notin last'.orph
         /\ /\ ~(AsSecs(e.age) < ORPHAN_TTL_SECS)
            /\ e.id \in IdsOf(last'.orders) \ last'.tracked
            /\ Cardinality(last'.orph) < MAX_ORPHAN_CANCELS_PER_TICK
            => e.id \in last'.orph]_vars
\* An orphan that stayed on the book is cancelled again once its entry expired,
\* while another, cancelled later, is still held back.
C15_Witness ==
  /\ last.op = "recon"
  /\ last.expired \cap last.orph # {}
  /\ \E e \in recently_cancelled :
       e.age > 0 /\ e.id \in IdsOf(last.orders) \ last.tracked

\* C16: after a reconciliation every id held by a non-Empty cell is in
\* tracked_ids, and no orphan cancel was sent for it.
C16_CellIdsAreTracked ==
  last.op = "recon" =>
    \A l \in Lv, s \in Sides :
      ~is_empty(cells[l][s]) =>
        cells[l][s].id \in last.tracked /\ cells[l][s].id \notin last.orph

\* C17: a tick that observes momentum < -0.003 places no bid; with inventory at
\* most 0.05 SOL it sends no request at all and leaves every cell and every
\* commitment counter as it was.
C17_DowntrendPlacesNoBid ==
  [][last'.op = "tick" /\ last'.snap.mom < -MOMENTUM_THRESHOLD =>
       /\ \A i \in DOMAIN last'.reqs :
            ~(last'.reqs[i].op = "place" /\ last'.reqs[i].side = "bid")
       /\ last'.snap.inv <= SolUnit \div 20 =>
            /\ last'.reqs = << >>
            /\ ~last'.snap.ran
            /\ UNCHANGED <<cells, commitments>>]_vars
\* A downtrend tick with a long position: the Live bid is cancelled, none is
\* placed, and the ask side is quoted.
C17_Witness ==
  /\ last.op = "tick"
  /\ last.snap.mom < -MOMENTUM_THRESHOLD
  /\ last.snap.inv > SolUnit \div 20
  /\ \E r \in Reqs : r.op = "cancel" /\ r.side = "bid" /\ r.pre.st = "Live"
  /\ Placed("ask") # {}

\* The price, in cents, that lies off2 / 2 thousandths of a basis point above
\* (below, for a negative off2) the mid m, rounded to the cent.
PriceAt(m, off2) == m + ((2 * m * off2 + 2 * BpsScale) \div (4 * BpsScale))
\* A level's offsets outside an uptrend: bps + capped_skew and bps - capped_skew.
BidOffset(l, sn) == LEVELS[l][1] + Clamp(SkewBps(sn.inv, sn.sg), -(LEVELS[l][1] \div 2), LEVELS[l][1] \div 2)
AskOffset(l, sn) == LEVELS[l][1] - Clamp(SkewBps(sn.inv, sn.sg), -(LEVELS[l][1] \div 2), LEVELS[l][1] \div 2)

\* C18: a tick that observes momentum > +0.003 is not skipped and the trend
\* skips neither side; every ask it places is priced at 1.5 times the level's
\* ask offset and every bid at the level's unchanged bid offset.
C18_UptrendWidensAsks ==
  [][last'.op = "tick" /\ last'.snap.mom > MOMENTUM_THRESHOLD =>
       LET sn == last'.snap
       IN /\ sn.ran
          /\ sn.gate.skipB = (ofi_paused' /\ sn.ofi < 0)
          /\ sn.gate.skipA = (ofi_paused' /\ sn.ofi > 0)
          /\ \A i \in DOMAIN last'.reqs :
               LET r == last'.reqs[i]
               IN r.op = "place" /\ r.res = "OkId" =>
                    r.post.price =
                      IF r.side = "ask"
                      THEN PriceAt(sn.m, 3 * AskOffset(r.lvl, sn))
                      ELSE PriceAt(sn.m, -2 * BidOffset(r.lvl, sn))]_vars
\* An uptrend tick quotes both sides, the ask further out than it would be
\* without the trend.
C18_Witness ==
  /\ last.op = "tick"
  /\ last.snap.mom > MOMENTUM_THRESHOLD
  /\ \E r \in Placed("bid") : r.res = "OkId"
  /\ \E r \in Placed("ask") :
       /\ r.res = "OkId"
       /\ r.post.price > PriceAt(last.snap.m, 2 * AskOffset(r.lvl, last.snap))

\* What the bids and the asks of levels l..NumLevels commit when all are
\* placed at mid m with the inventory flat.
RECURSIVE BidNotional(_, _)
BidNotional(l, sn) ==
  IF l > NumLevels THEN 0
  ELSE RoundDiv(ORDER_USD * 10000, sn.m) * SizeStep * PriceAt(sn.m, -2 * BidOffset(l, sn))
         + BidNotional(l + 1, sn)
AskQuantity == NumLevels * (RoundDiv(ORDER_USD * 10000, last'.snap.m) * SizeStep)

C19_ShutdownIsFinal ==
  [][/\ ~shutting_down
     /\ shutting_down' =>
          /\ last'.op = "shutdown"
          /\ last'.reqs = << >>
          /\ last'.orph = {}
          /\ last'.final = <<"cancel_all_orders", "poll_active_orders", "report">>
          /\ active' \subseteq active
          /\ UNCHANGED <<cells, commitments, balances, ofi_paused,
                         recently_cancelled>>]_vars
\* The engine has terminated with a cell still Live locally: the cancel-all
\* cleared the book and the final poll saw it empty.
C19_Witness ==
  /\ shutting_down
  /\ last.op = "shutdown"
  /\ \E l \in Lv, s \in Sides : is_live(cells[l][s])
  /\ last.ok /\ last.orders = {} /\ active = {}

\* The orders the exchange booked during the step, on one side, and what they
\* commit: size * price for bids, size for asks.
Booked(s) == {o \in active' : o.id >= nextId /\ o.side = s}

\* C21: the bids the exchange books in one tick commit together at most the
\* cached quote balance less the commitments at the start of the tick and the
\* 2% buffer, and the asks at most the same of the base balance.
C21_TickWithinAvailable ==
  [][last'.op = "tick" =>
       /\ SumCommitted(Booked("bid"), "bid") <= UsdtBound - total_usdt(commitments)
       /\ SumCommitted(Booked("ask"), "ask") <= SolBound - total_sol(commitments)]_vars

\* C22: whenever the fills given to the P&L book add up to no position, however
\* they were sliced, the realized spread P&L is the sum over the FIFO-matched pairs
\* of (exit - entry) x matched size.
C22_RoundTripRealized ==
  (pnl.buys + pnl.sells > 0 /\ fifo.lq = << >> /\ fifo.sq = << >>)
     => pnl.spread = fifo.spread

\* C23: at most one of the long and the short queue holds entries, the long
\* queue only at a positive net inventory and the short queue only at a negative
\* one, in the P&L book of the fills branch and in the order manager.
C23_OneQueueAtATime ==
  /\ pnl.lq = << >> \/ pnl.sq = << >>
  /\ pnl.lq # << >> => PnL_inv(pnl) > 0
  /\ pnl.sq # << >> => PnL_inv(pnl) < 0
  /\ om.long_entries = << >> \/ om.short_entries = << >>
  /\ om.long_entries # << >> => om.position > 0
  /\ om.short_entries # << >> => om.position < 0

\* The price and the size a place request of a tick carries, in cents and in
\* 1e-4 SOL: format!("{:.2}") of the level's target price and of the side's size.
TickSize == 1
SentPrice(r, sn) ==
  IF r.side = "bid" THEN BidPrice(r.lvl, sn.m, sn.inv, sn.sg)
  ELSE AskPrice(r.lvl, sn.m, sn.inv, sn.sg, sn.mom > MOMENTUM_THRESHOLD)
SentSize(r, sn) ==
  Fmt2(IF r.side = "bid" THEN BidSz(sn.m, sn.inv) ELSE AskSz(sn.m, sn.inv))

\* C24: every price a place request carries is a multiple of 0.01, and every
\* size a multiple of 0.01 that is at least 0.01, whatever the mid and the
\* inventory.
C24_TickSizeSafety ==
  last.op = "tick" =>
    \A r \in Placed("bid") \cup Placed("ask") :
      /\ SentPrice(r, last.snap) % TickSize = 0
      /\ SentSize(r, last.snap) % SizeStep = 0
      /\ SentSize(r, last.snap) >= SizeStep

\* The reply messages the connection task can read next, and the pending slots
\* a step took out of the map.
Replies == {msg \in wsc.inbound : msg.kind = "reply"}
Resolved == wsc.pending \ wsc'.pending
ReadReply(msg) ==
  last'.op = "ws_recv" /\ msg \in Replies /\ wsc'.inbound = wsc.inbound \ {msg}

\* C25 as stated: every request carries an id no other request carries and is
\* in the pending map when it is sent; every inbound message with an id
\* resolves exactly one pending slot; a reply handed to a caller is the reply
\* to its own request.
C25_EveryReplyResolvesOneSlot ==
  [][/\ last'.op = "ws_register" =>
          wsc'.call.id \notin wsc.issued /\ wsc'.call.id \in wsc'.pending
     /\ last'.op = "ws_send" => wsc.call.id \in wsc.pending
     /\ \A msg \in Replies : ReadReply(msg) => Resolved = {msg.id}
     /\ wsc'.ret.out = "reply" => wsc'.ret.reply = wsc'.ret.id]_vars
\* C25, amended: an inbound message with an id resolves the slot registered
\* under that id, and no slot when the call has already given up on it; a call
\* returns once, with the reply to its own request or with an error.
C25_Correlation ==
  [][/\ last'.op = "ws_register" =>
          wsc'.call.id \notin wsc.issued /\ wsc'.call.id \in wsc'.pending
     /\ last'.op = "ws_send" => wsc.call.id \in wsc.pending
     /\ \A msg \in Replies :
          ReadReply(msg) => Resolved = {msg.id} \cap wsc.pending
     /\ wsc'.ret.out = "reply" => wsc'.ret.reply = wsc'.ret.id
     /\ wsc'.ret # wsc.ret /\ wsc'.ret.out # "none" =>
          /\ wsc.call.st # "idle" /\ wsc'.call.st = "idle"
          /\ wsc'.ret.id = wsc.call.id]_vars
\* A call returns its own reply after the reply to an earlier call, which had
\* timed out, was read and resolved nothing.
C25_Witness ==
  /\ last.op = "ws_recv"
  /\ wsc.ret.out = "reply"
  /\ wsc.ret.reply = wsc.ret.id
  /\ wsc.ret.id > 0
  /\ wsc.pending = {}

\* C26: when place_order or cancel_order has returned, with a reply, after the
\* timeout or because the send failed, the pending map holds no entry under the
\* id of that request.
C26_ReturnedCallLeavesNoEntry ==
  wsc.ret.out # "none" => wsc.ret.id \notin wsc.pending

\* C27: on every connection, the handler that reads the server's sessionId
\* message answers it with the signature, and no order request is answered on a
\* connection before that.
C27_SessionIsSigned ==
  [][/\ (/\ last'.op = "ws_recv"
          /\ \E msg \in wsc.inbound \ wsc'.inbound : msg.kind = "session")
        => wsc'.session = "signed"
     /\ Replies # {} => wsc.session = "signed"]_vars

\* C28: every request that enters the outgoing channel has first passed the
\* token bucket: the bucket was refilled for the time elapsed and gave up one
\* token for the request.
C28_EmissionsPassTheLimiter ==
  [][last'.op = "ws_send" /\ wsc'.call.st = "waiting" =>
       \E elapsed \in 0..RateLimit :
          rate_limiter' = wait_and_consume(rate_limiter, elapsed)]_vars

\* C30: the ids one OrderTemplate has issued since the last reset_counter are
\* numbered 0, 1, 2, ... in the order of issue, whichever of build_bid and
\* build_ask issued them; any two of them differ; and current_count is their
\* number.
C30_OidsAreConsecutive ==
  /\ \A i \in DOMAIN template.issued : template.issued[i][2] = i - 1
  /\ \A i, j \in DOMAIN template.issued :
       i # j => template.issued[i] # template.issued[j]
  /\ current_count(template) = Len(template.issued)
\* Bids and asks have been issued in turn from the one counter.
C30_Witness ==
  /\ Len(template.issued) >= 4
  /\ template.issued[1][1] = "bid" /\ template.issued[2][1] = "ask"
  /\ template.issued[3][1] = "ask" /\ template.issued[4][1] = "bid"
  /\ current_count(template) = Len(template.issued)

\* ------------------------------------------------------------ C29
\* The requests of the last tick for the cell (l, s), in the order sent.
RECURSIVE OpsOf(_, _, _)
OpsOf(reqs, l, s) ==
  IF reqs = << >> THEN << >>
  ELSE IF Head(reqs).lvl = l /\ Head(reqs).side = s
       THEN <<Head(reqs).op>> \o OpsOf(Tail(reqs), l, s)
       ELSE OpsOf(Tail(reqs), l, s)
CellForms == {<< >>, <<"cancel">>, <<"place">>, <<"cancel", "place">>}

\* C29: within one controller tick the requests follow the configured order of
\* the levels, and the requests for one cell are nothing, one cancel, one place,
\* or one cancel followed by one place.
C29_TickRequestForms ==
  last.op = "tick" =>
    /\ \A i, j \in DOMAIN last.reqs :
         i < j => last.reqs[i].lvl <= last.reqs[j].lvl
    /\ \A l \in DOMAIN cells, s \in Sides : OpsOf(last.reqs, l, s) \in CellForms
\* A tick that cancelled the stale bid of the first level and placed its
\* replacement, cancelled the stale ask of that level, and sent a request for
\* the second level after that.
C29_Witness ==
  /\ last.op = "tick"
  /\ OpsOf(last.reqs, 1, "bid") = <<"cancel", "place">>
  /\ OpsOf(last.reqs, 1, "ask") = <<"cancel">>
  /\ \E i \in DOMAIN last.reqs : last.reqs[i].lvl = 2

\* ------------------------------------------------------------ C31
\* The total size resting at the n best prices of a side.
RECURSIVE SizeAt(_, _)
SizeAt(levels, prices) ==
  IF levels = << >> THEN 0
  ELSE (IF Head(levels).price \in prices THEN Head(levels).size ELSE 0)
       + SizeAt(Tail(levels), prices)
PricesOf(levels) == {levels[i].price : i \in DOMAIN levels}
BestPrices(levels, side, n) ==
  {p \in PricesOf(levels) :
     Cardinality({q \in PricesOf(levels) :
                    IF side = "bid" THEN q > p ELSE q < p}) < n}

\* C31: once a snapshot has loaded the book, bids are strictly descending and
\* asks strictly ascending (one level per price), a size-0 delta leaves no level
\* at its price, best_bid is the highest bid price and best_ask the lowest ask
\* price, and the depth over n levels is the size resting at the n best prices.
C31_BookStaysSorted ==
  order_book.update.op # "none" =>
    /\ \A side \in Sides :
         LET levels == Levels(order_book, side)
         IN /\ \A i \in 1..(Len(levels) - 1) :
                 IF side = "bid" THEN levels[i].price > levels[i + 1].price
                 ELSE levels[i].price < levels[i + 1].price
            /\ \A n \in 0..(Cardinality(BookPrices) + 1) :
                 (IF side = "bid" THEN bid_depth(order_book, n)
                  ELSE ask_depth(order_book, n))
                   = SizeAt(levels, BestPrices(levels, side, n))
    /\ (order_book.update.op = "delta" /\ order_book.update.size = 0)
         => order_book.update.price
              \notin PricesOf(Levels(order_book, order_book.update.side))
    /\ order_book.bids # << >> =>
         /\ best_bid(order_book).some
         /\ \A p \in PricesOf(order_book.bids) : p <= best_bid(order_book).v
    /\ order_book.asks # << >> =>
         /\ best_ask(order_book).some
         /\ \A p \in PricesOf(order_book.asks) : p >= best_ask(order_book).v
\* A delta pushed a new best bid onto a book that already held two bids.
C31_Witness ==
  /\ order_book.update.op = "delta"
  /\ order_book.update.side = "bid"
  /\ order_book.update.size > 0
  /\ Len(order_book.bids) = 3
  /\ order_book.bids[1].price = order_book.update.price
  /\ Len(order_book.asks) = 3

\* ------------------------------------------------------------ C32
\* The total size of the resting orders held by the Live cells of a side.
RECURSIVE SizeSum(_)
SizeSum(orders) ==
  IF orders = {} THEN 0
  ELSE LET o == CHOOSE x \in orders : TRUE
       IN o.size + SizeSum(orders \ {o})
LiveOrders(s) ==
  {o \in active : \E l \in Lv : is_live(cells[l][s]) /\ cells[l][s].id = o.id}

\* C32: after a tick, the inventory it ran on plus the total size of the Live
\* bids is at most MAX_INV_SOL, and that inventory minus the total size of the
\* Live asks is at least -MAX_INV_SOL.
C32_RestingOrdersWithinLimit ==
  (last.op = "tick" /\ last.snap.ran) =>
    /\ last.snap.inv + SizeSum(LiveOrders("bid")) <= MAX_INV_SOL * SolUnit
    /\ last.snap.inv - SizeSum(LiveOrders("ask")) >= -(MAX_INV_SOL * SolUnit)

\* ------------------------------------------------------------ C33
\* C33: a controller tick never lowers inflight_usdt or inflight_sol and leaves
\* live_usdt and live_sol as they were, and a step that lowers an inflight
\* counter or changes a live counter is a reconciliation.
C33_ControllerOnlyAdds ==
  [][/\ last'.op = "tick" =>
          /\ commitments'.inflight_usdt >= commitments.inflight_usdt
          /\ commitments'.inflight_sol >= commitments.inflight_sol
          /\ commitments'.live_usdt = commitments.live_usdt
          /\ commitments'.live_sol = commitments.live_sol
     /\ (\/ commitments'.inflight_usdt < commitments.inflight_usdt
         \/ commitments'.inflight_sol < commitments.inflight_sol
         \/ commitments'.live_usdt # commitments.live_usdt
         \/ commitments'.live_sol # commitments.live_sol)
          => last'.op = "recon"]_vars
\* A tick cancelled a Live bid whose notional a reconciliation had counted as
\* live, the cell became Empty, and live_usdt still holds the notional.
C33_Witness ==
  /\ last.op = "tick"
  /\ \E i \in DOMAIN last.reqs :
       /\ last.reqs[i].op = "cancel"
       /\ last.reqs[i].side = "bid"
       /\ last.reqs[i].pre.st = "Live"
       /\ last.reqs[i].post.st = "Empty"
  /\ \A l \in Lv : ~is_live(cells[l].bid)
  /\ commitments.live_usdt > 0

\* ------------------------------------------------------------ C34
\* C34: every CancelPending cell carries attempts = 1, below the maximum, so a
\* reconciliation that moves a timed-out CancelPending cell whose order is
\* still fetched has tried the REST cancel.
C34_AttemptsStayOne ==
  \A l \in Lv, s \in Sides :
    cells[l][s].st = "CancelPending" =>
      /\ cells[l][s].attempts = 1
      /\ cells[l][s].attempts < CANCEL_MAX_ATTEMPTS
\* A reconciliation found a CancelPending cell timed out with its order still
\* fetched, and the REST cancel it tried emptied the cell.
C34_Witness ==
  /\ last.op = "recon"
  /\ \E mv \in last.moves :
       /\ mv.from.st = "CancelPending"
       /\ mv.from.attempts = 1
       /\ AsSecs(mv.from.age) > CANCEL_TIMEOUT_SECS
       /\ mv.from.id \in IdsOf(last.orders)
       /\ mv.to.st = "Empty"

\* ------------------------------------------------------------ C35
\* C35: no tradeId has been applied to the P&L book more than once, and the
\* book has counted as many fills as tradeIds were applied.
C35_FillAppliedAtMostOnce ==
  /\ \A t \in DOMAIN feed.applied : feed.applied[t] <= 1
  /\ pnl.buys + pnl.sells
       = Cardinality({t \in DOMAIN feed.applied : feed.applied[t] > 0})
\* A poll returned a trade an earlier poll had returned and applied, next to a
\* new one, and applied the new one only.
C35_Witness ==
  /\ last.op = "fills"
  /\ Len(feed.trades) = 3
  /\ feed.skipped = {2}
  /\ feed.seen = {1, 2, 3}
  /\ \A t \in 1..3 : feed.applied[t] = 1
  /\ pnl.buys + pnl.sells = 3

\* ------------------------------------------------------------ C36
\* C36: no place request has carried a clientOid that an earlier place request
\* of the run, or another of the same tick, carried.
C36_ClientOidsAreFresh == run.reused = {}
\* The first bid cell was placed in the first and again in the second tick,
\* and the second level's bid in the second tick.
C36_Witness ==
  /\ last.op = "tick"
  /\ run.n = 2
  /\ client_oid("bid", LevelKey(1), 1) \in run.sent
  /\ client_oid("bid", LevelKey(1), 2) \in run.sent
  /\ client_oid("bid", LevelKey(2), 2) \in run.sent

\* ------------------------------------------------------------ C37
\* The delay before attempt f + 1, in seconds.
ClaimedDelay(f) ==
  IF f = 0 THEN 1 ELSE IF f = 1 THEN 2 ELSE IF f = 2 THEN 4
  ELSE IF f = 3 THEN 8 ELSE IF f = 4 THEN 16 ELSE 30

\* C37: the monitor starts a wait only while disconnected, and the wait before
\* attempt f + 1 is min(2^min(f, 5), 30) s, f being the failures in a row; a
\* connect that succeeds stores f = 0 and one that fails f + 1; the monitor
\* stops only at 10 failures in a row, and once stopped it stays stopped and
\* the client stays disconnected.
C37_BackoffAndGivingUp ==
  [][/\ (monitor.phase = "watching" /\ monitor'.phase = "sleeping")
          => /\ ~wsc.connected
             /\ monitor.failures < 10
             /\ monitor'.delay = ClaimedDelay(monitor.failures)
     /\ (monitor.phase = "sleeping" /\ monitor'.phase = "watching")
          => IF wsc'.connected THEN monitor'.failures = 0
             ELSE monitor'.failures = monitor.failures + 1
     /\ (monitor.phase # "stopped" /\ monitor'.phase = "stopped")
          => monitor.failures = 10 /\ ~wsc.connected
     /\ monitor.phase = "stopped"
          => monitor'.phase = "stopped" /\ ~wsc'.connected]_vars
\* The monitor reconnected once, then failed ten times in a row, the last wait
\* being 30 s, and stopped.
C37_Witness ==
  /\ monitor.phase = "stopped"
  /\ monitor.failures = 10
  /\ monitor.delay = 30
  /\ monitor.connects >= 1
  /\ ~wsc.connected

\* ------------------------------------------------------------ C38
\* The twelve pairs, with the state each leads to.
Listed ==
  {<<"PendingNew", "Acknowledge", "Open">>,
   <<"Open", "PartialFill", "PartiallyFilled">>,
   <<"Open", "Fill", "Filled">>, <<"PartiallyFilled", "Fill", "Filled">>,
   <<"Open", "ModifyRequest", "PendingModify">>,
   <<"PartiallyFilled", "ModifyRequest", "PendingModify">>,
   <<"PendingModify", "ModifyAck", "Open">>,
   <<"Open", "CancelRequest", "PendingCancel">>,
   <<"PartiallyFilled", "CancelRequest", "PendingCancel">>,
   <<"PendingCancel", "CancelAck", "Cancelled">>,
   <<"PendingNew", "Reject", "Rejected">>,
   <<"Open", "Expire", "Expired">>}

\* C38: a call of transition returns Ok exactly for a known order and one of
\* the twelve pairs, and then the state is the pair's target and the last
\* entry of the history; any other call returns an error and leaves every
\* order as it was, so a terminal state is never left.
C38_TransitionTable ==
  [][machine'.call.op = "transition" =>
       LET c == machine'.call
           hit == {p \in Listed : p[1] = c.pre /\ p[2] = c.ev}
       IN IF c.oid \in DOMAIN machine.orders /\ hit # {}
          THEN /\ c.ok
               /\ \A p \in hit : machine'.orders[c.oid].state = p[3]
               /\ machine'.orders[c.oid].state_history
                    = Append(machine.orders[c.oid].state_history,
                             machine'.orders[c.oid].state)
               /\ ~is_terminal(c.pre)
          ELSE /\ ~c.ok
               /\ machine'.orders = machine.orders]_vars
\* A Fill was refused for an order that had been acknowledged and cancelled:
\* it is still Cancelled and its history ends with Cancelled.
C38_Witness ==
  /\ machine.call.op = "transition"
  /\ machine.call.oid = 1
  /\ machine.call.ev = "Fill"
  /\ machine.call.pre = "Cancelled"
  /\ ~machine.call.ok
  /\ machine.orders[1].state = "Cancelled"
  /\ machine.orders[1].state_history
       = <<"PendingNew", "Open", "PendingCancel", "Cancelled">>

\* ------------------------------------------------------------ C39
\* C39: after record_fill, an order whose filled_size is at least its
\* original_size is Filled.
C39_FullyFilledIsFilled ==
  (machine.call.op = "record_fill" /\ machine.call.oid \in DOMAIN machine.orders)
    => LET o == machine.orders[machine.call.oid]
       IN o.filled_size >= o.original_size => o.state = "Filled"

====
